---------------------------- MODULE Spec2Model ----------------------------
(***************************************************************************)
(* A model of the GUI agent's response validation (agent/action_parser.py) *)
(* and of its ReAct control loop (agent/orchestrator.py), with the         *)
(* execution collaborator (tools/gui_tools.py) as far as the loop sees it. *)
(***************************************************************************)
EXTENDS Integers, Sequences, FiniteSets, TLC

VARIABLES
    pc,                    \* position of run_task
    max_steps,             \* Orchestrator.max_steps
    step_num,              \* loop variable of run_task
    is_running,            \* Orchestrator.is_running
    steps,                 \* Orchestrator.steps
    conversation_history,  \* local of run_task
    screenshot_b64,        \* local of run_task
    llm_response,          \* local of run_task
    parsed,                \* local of run_task
    exec_out,              \* (success, result_msg) of the iteration
    result,                \* the TaskResult run_task returned
    stop_called,           \* history: stop() was called during the run
    n_capture,             \* history: calls of capture_to_base64
    n_chat,                \* history: calls of chat_with_image
    n_exec,                \* history: calls of execute_action
    p_in,                  \* argument of a stand-alone ActionParser.parse call
    p_out,                 \* what that call returned
    stop_at,               \* history: captures made when stop() was first called
    arg,                   \* arguments of a stand-alone call of another method
    ret,                   \* what that call returned
    dpi_scale,             \* GUITools._dpi_scale
    on_step_callback,      \* Orchestrator.on_step_callback is set
    published,             \* history: the steps the callback was called with
    n_parse,               \* history: calls of parse by run_task
    n_check,               \* history: termination checks of run_task
    llm,                   \* Orchestrator.llm: which model answers
    chat_log,              \* history: what each model call of the run was given and returned
    n_delay,               \* history: calls of time.sleep(step_delay) by run_task
    previous,              \* the TaskResult of the run before, and its list object now
    stop_before,           \* history: stop() was called at rest (pending), and before this run (run)
    session_state          \* st.session_state of the Streamlit page

vars == <<pc, max_steps, step_num, is_running, steps, conversation_history,
          screenshot_b64, llm_response, parsed, exec_out, result, stop_called,
          n_capture, n_chat, n_exec, p_in, p_out, stop_at, arg, ret, dpi_scale,
          on_step_callback, published, n_parse, n_check, llm, chat_log,
          n_delay, previous, stop_before, session_state>>

callVars == <<arg, ret, dpi_scale>>

obsVars == <<on_step_callback, published, n_parse, n_check>>

lifeVars == <<llm, previous, stop_before, session_state>>

runVars == <<chat_log, n_delay, lifeVars>>

loopVars == <<pc, max_steps, step_num, is_running, steps, conversation_history,
              screenshot_b64, llm_response, parsed, exec_out, result,
              stop_called, n_capture, n_chat, n_exec, stop_at,
              on_step_callback, published, n_parse, n_check, runVars>>

-----------------------------------------------------------------------------
(* Bounds of the model.                                                    *)

MaxSteps == 3

-----------------------------------------------------------------------------
(* Decoded JSON values and Python values, tagged by their type.  A float   *)
(* is kept in hundredths, so 0.02 is JFloat(2) and 1.0 is JFloat(100).     *)

JNull == [t |-> "null"]
JStr(s) == [t |-> "str", v |-> s]
JInt(n) == [t |-> "int", v |-> n]
JFloat(h) == [t |-> "float", v |-> h]
JList(q) == [t |-> "list", v |-> q]
JObj(d) == [t |-> "obj", v |-> d]

EmptyDict == <<>>

\* dict.get(key): None when the key is absent
GetOrNone(d, key, default) == IF key \in DOMAIN d THEN d[key] ELSE JNull

\* dict.get(key, default)
Get(d, key, default) == IF key \in DOMAIN d THEN d[key] ELSE default

\* The strings int() accepts, among those the model's inputs use.
NumericStrings == [s \in {"100"} |-> 100]

-----------------------------------------------------------------------------
(* agent/action_parser.py: the action kinds and their params models.       *)

ActionType ==
    {"click", "move", "type", "hotkey", "scroll", "screenshot", "wait", "done"}

\* a required field declared with the default None
ReqAsOptional(ty) == [ty |-> ty, req |-> FALSE, def |-> JNull]

Req(ty) == [ty |-> ty, req |-> TRUE, def |-> JNull]
Opt(ty, default) == [ty |-> ty, req |-> FALSE, def |-> default]

ClickParams ==
    [x |-> Req("int"), y |-> Req("int"),
     button |-> Opt("str", JStr("left")), clicks |-> Opt("int", JInt(1))]
MoveParams == [x |-> Req("int"), y |-> Req("int")]
TypeParams == [text |-> Req("str"), interval |-> Opt("float", JFloat(2))]
HotkeyParams == [keys |-> Req("list_str")]
ScrollParams ==
    [amount |-> Req("int"), x |-> Opt("opt_int", JNull), y |-> Opt("opt_int", JNull)]
WaitParams == [seconds |-> Opt("float", JFloat(100))]
DoneParams == [message |-> Opt("str", JStr("Task completed"))]
ScreenshotParams == [region |-> Opt("opt_list_int", JNull)]

PARAM_VALIDATORS ==
    [click |-> ClickParams, move |-> MoveParams, type |-> TypeParams,
     hotkey |-> HotkeyParams, scroll |-> ScrollParams, wait |-> WaitParams,
     done |-> DoneParams, screenshot |-> ScreenshotParams]

Bad == [ok |-> FALSE]
Good(v) == [ok |-> TRUE, v |-> v]

\* pydantic's validation of one value against a field type (lax mode, as
\* the models declare no strictness): the value the field gets, or Bad.
CoerceInt(val) ==
    CASE val.t = "int" -> Good(val)
      [] val.t = "float" ->
            IF val.v % 100 = 0 THEN Good(JInt(val.v \div 100)) ELSE Bad
      [] val.t = "str" ->
            IF val.v \in DOMAIN NumericStrings
            THEN Good(JInt(NumericStrings[val.v])) ELSE Bad
      [] OTHER -> Bad

CoerceFloat(val) ==
    CASE val.t = "float" -> Good(val)
      [] val.t = "int" -> Good(JFloat(val.v * 100))
      [] val.t = "str" ->
            IF val.v \in DOMAIN NumericStrings
            THEN Good(JFloat(NumericStrings[val.v] * 100)) ELSE Bad
      [] OTHER -> Bad

CoerceStr(val) == IF val.t = "str" THEN Good(val) ELSE Bad

CoerceListStr(val) ==
    IF val.t = "list" /\ \A i \in DOMAIN val.v : val.v[i].t = "str"
    THEN Good(val) ELSE Bad

CoerceListInt(val) ==
    IF val.t = "list" /\ \A i \in DOMAIN val.v : CoerceInt(val.v[i]).ok
    THEN Good(JList([i \in DOMAIN val.v |-> CoerceInt(val.v[i]).v]))
    ELSE Bad

Coerce(ty, val) ==
    CASE ty = "int" -> CoerceInt(val)
      [] ty = "float" -> CoerceFloat(val)
      [] ty = "str" -> CoerceStr(val)
      [] ty = "list_str" -> CoerceListStr(val)
      [] ty = "opt_int" -> IF val.t = "null" THEN Good(val) ELSE CoerceInt(val)
      [] ty = "opt_list_int" ->
            IF val.t = "null" THEN Good(val) ELSE CoerceListInt(val)

\* Validate for models that keep the keys they do not declare
ValidateKeepingExtras(model, params) ==
    LET r == [f \in DOMAIN model \cup DOMAIN params |->
                 IF f \notin DOMAIN model THEN Good(params[f])
                 ELSE IF f \in DOMAIN params THEN Coerce(model[f].ty, params[f])
                 ELSE IF model[f].req THEN Bad
                 ELSE Good(model[f].def)]
    IN  IF \A f \in DOMAIN r : r[f].ok
        THEN Good([f \in DOMAIN r |-> r[f].v])
        ELSE Bad

\* validator(**action_params) followed by model_dump(): every declared field
\* validated or defaulted, undeclared keys dropped; Bad on a ValidationError.
Validate(model, params) ==
    LET r == [f \in DOMAIN model |->
                 IF f \in DOMAIN params THEN Coerce(model[f].ty, params[f])
                 ELSE IF model[f].req THEN Bad
                 ELSE Good(model[f].def)]
    IN  IF \A f \in DOMAIN model : r[f].ok
        THEN Good([f \in DOMAIN model |-> r[f].v])
        ELSE Bad

-----------------------------------------------------------------------------
(* agent/action_parser.py: ActionParser.parse.                             *)
(* A raw model text is given by what extract_json and json.loads make of   *)
(* it: no candidate, a candidate json.loads rejects with JSONDecodeError,  *)
(* a candidate on which json.loads raises another error (RecursionError on *)
(* deep nesting, ValueError on an integer literal of more than 4300        *)
(* digits), or a candidate that decodes to a value.                        *)

NoJson == [k |-> "nojson"]
Undecodable == [k |-> "undecodable"]
DecodeRaises == [k |-> "decode_raises"]
Json(v) == [k |-> "json", v |-> v]

Raised == [raised |-> TRUE]

AgentAction(type, params) == [type |-> type, params |-> params]

\* DoneAction with the message left out of the params
DoneActionNoMessage(message) == AgentAction("done", EmptyDict)

DoneAction(message) == AgentAction("done", [message |-> JStr(message)])

\* The AgentResponse constructor: thought and status are declared str, so
\* another type is a ValidationError.
AgentResponse(thought, action, status) ==
    IF thought.t = "str" /\ status.t = "str"
    THEN [raised |-> FALSE, thought |-> thought.v, action |-> action,
          status |-> status.v]
    ELSE Raised

\* ActionType(action_type_str) succeeds
IsActionType(val) == val.t = "str" /\ val.v \in ActionType

\* The second try block of parse; Raised stands for an exception in it.
ValidateStructure(data) ==
    IF data.t # "obj"
    THEN AgentResponse(JStr("Response is not a dict: ..."),
                       DoneAction("Invalid response format"), JStr("failed"))
    ELSE
    LET thought == Get(data.v, "thought", JStr("No thought provided"))
        status == Get(data.v, "status", JStr("in_progress"))
        action_data == Get(data.v, "action", JObj(EmptyDict))
    IN  IF action_data.t # "obj"
        THEN AgentResponse(thought, DoneAction("Invalid action format: ..."),
                           JStr("failed"))
        ELSE
        LET action_type_str == Get(action_data.v, "type", JStr("done"))
            action_params == Get(action_data.v, "params", JObj(EmptyDict))
        IN  IF ~IsActionType(action_type_str)
            THEN AgentResponse(thought, DoneAction("Unknown action type: ..."),
                               JStr("failed"))
            ELSE IF action_params.t # "obj"
            THEN Raised
            ELSE
            LET v == Validate(PARAM_VALIDATORS[action_type_str.v], action_params.v)
            IN  IF ~v.ok
                THEN AgentResponse(thought, DoneAction("Invalid params: ..."),
                                   JStr("failed"))
                ELSE AgentResponse(thought,
                                   AgentAction(action_type_str.v, v.v), status)

\* parse(response): an AgentResponse, or Raised when an exception escapes.
Parse(response) ==
    CASE response.k = "nojson" ->
            AgentResponse(JStr("Failed to find JSON in response: ..."),
                          DoneAction("Parse error: No JSON found"), JStr("failed"))
      [] response.k = "undecodable" ->
            AgentResponse(JStr("Failed to parse JSON: ..."),
                          DoneAction("JSON parse error: ..."), JStr("failed"))
      [] response.k = "decode_raises" -> Raised
      [] response.k = "json" ->
            LET r == ValidateStructure(response.v)
            IN  IF r.raised
                THEN AgentResponse(JStr("Validation error: ..."),
                                   DoneAction("<exception text>"), JStr("failed"))
                ELSE r


-----------------------------------------------------------------------------
(* tools/gui_tools.py: GUITools.execute_action as run_task calls it.  An   *)
(* input primitive (click, move, type_text, hotkey, scroll) catches every  *)
(* exception of the injection layer and returns whether it succeeded:      *)
(* prim_ok is that outcome.                                                *)

Outcome(success, msg) == [raised |-> FALSE, success |-> success, msg |-> msg]

\* GUITools.wait: time.sleep raises ValueError on a negative length, and
\* wait has no try block around it.
Wait(seconds) ==
    IF seconds.v < 0 THEN Raised ELSE Outcome(TRUE, "Waited ...s")

ExecuteAction(action, prim_ok) ==
    CASE action.type = "click" -> Outcome(prim_ok, "Clicked at ...")
      [] action.type = "move" -> Outcome(prim_ok, "Moved to ...")
      [] action.type = "type" -> Outcome(prim_ok, "Typed: ...")
      [] action.type = "hotkey" -> Outcome(prim_ok, "Pressed: ...")
      [] action.type = "scroll" -> Outcome(prim_ok, "Scrolled ...")
      [] action.type = "wait" -> Wait(Get(action.params, "seconds", JInt(1)))
      [] action.type = "done" ->
            Outcome(TRUE, Get(action.params, "message", JStr("Task completed")).v)
      [] action.type = "screenshot" -> Outcome(TRUE, "Screenshot requested")
      [] OTHER -> Outcome(FALSE, "Unknown action type: ...")

-----------------------------------------------------------------------------
(* The raw model texts of the model.                                       *)

Obj(thought, type, params, status) ==
    Json(JObj([thought |-> JStr(thought),
               action |-> JObj([type |-> JStr(type), params |-> JObj(params)]),
               status |-> JStr(status)]))

\* What both model clients return on a transport failure
\* (llm/ollama_client.py, llm/openai_compat_client.py).
TransportFailurePayload ==
    Obj("Error communicating with LLM: ...", "done",
        [message |-> JStr("LLM error")], "failed")

\* The texts a model call of the loop may return.
LoopOutputs ==
    { NoJson, Undecodable, DecodeRaises, Json(JInt(5)), Json(JObj(EmptyDict)),
      TransportFailurePayload,
      Obj("click it", "click", [x |-> JInt(10), y |-> JInt(20)], "in_progress"),
      Obj("scroll it", "scroll", [amount |-> JInt(3)], "in_progress"),
      Obj("pause", "wait", [seconds |-> JInt(-1)], "in_progress"),
      Obj("pause", "wait", [seconds |-> JInt(-1)], "completed"),
      Obj("finished", "done", [message |-> JStr("all done")], "completed"),
      Obj("finished", "done", EmptyDict, "in_progress"),
      Obj("last click", "click", [x |-> JInt(10), y |-> JInt(20)], "completed"),
      Obj("stuck", "type", [text |-> JStr("hi")], "failed"),
      Obj("almost", "hotkey", [keys |-> JList(<<JStr("win"), JStr("r")>>)], "done"),
      Obj("twice", "double_click", [x |-> JInt(10), y |-> JInt(20)], "in_progress"),
      Obj("half", "click", [x |-> JInt(10)], "in_progress") }

\* The texts of a model that answers one of three ways: go on, finish, give up.
ScriptedOutputs ==
    { Obj("click it", "click", [x |-> JInt(10), y |-> JInt(20)], "in_progress"),
      Obj("finished", "done", [message |-> JStr("all done")], "completed"),
      Obj("stuck", "type", [text |-> JStr("hi")], "failed") }

-----------------------------------------------------------------------------
(* agent/orchestrator.py: Orchestrator.                                    *)

NoResult == [returned |-> FALSE]

NotCalled == [called |-> FALSE]

\* no stand-alone call is set up
NoCall == [fn |-> "none"]

TaskResult(success, prefix, text, stepList) ==
    [returned |-> TRUE, success |-> success,
     message |-> [prefix |-> prefix, text |-> text], steps |-> stepList]

\* no run has ended on the instance yet
NoPrevious == [some |-> FALSE]

\* stop() was not called on the instance at rest
NoStopBefore == [pending |-> FALSE, run |-> FALSE]

\* the Streamlit page is not open
NoSession == [open |-> FALSE]

\* the texts the model in use may return
Replies == IF llm = "scripted" THEN ScriptedOutputs ELSE LoopOutputs

\* Step numbered from 0, as for a loop over range(max_steps)
StepZeroBased(n, shot, p, result_msg) ==
    [step_number |-> n - 1, screenshot_b64 |-> shot, thought |-> p.thought,
     action_type |-> p.action.type, action_params |-> p.action.params,
     action_result |-> result_msg, status |-> p.status]

Step(n, shot, p, result_msg) ==
    [step_number |-> n, screenshot_b64 |-> shot, thought |-> p.thought,
     action_type |-> p.action.type, action_params |-> p.action.params,
     action_result |-> result_msg, status |-> p.status]

\* _build_user_message: the first step's framing differs from the later ones
BuildUserMessage(n) == IF n = 1 THEN "first" ELSE "continue"

Running == pc \notin {"idle", "returned", "raised"}

\* is the turn one that ends the run at the check of line 158
IsDone(p) == p.status = "completed" \/ p.action.type = "done"

\* the state after __init__
Init ==
    /\ pc = "idle"
    /\ max_steps \in 0..MaxSteps
    /\ step_num = 0
    /\ is_running = FALSE
    /\ steps = <<>>
    /\ conversation_history = <<>>
    /\ screenshot_b64 = 0
    /\ llm_response = NoJson
    /\ parsed = Raised
    /\ exec_out = Raised
    /\ result = NoResult
    /\ stop_called = FALSE
    /\ n_capture = 0
    /\ n_chat = 0
    /\ n_exec = 0
    /\ p_in = NoJson
    /\ p_out = NotCalled
    /\ stop_at = 0
    /\ arg = NoCall
    /\ ret = NotCalled
    /\ dpi_scale = JNull
    /\ on_step_callback \in BOOLEAN
    /\ published = <<>>
    /\ n_parse = 0
    /\ n_check = 0
    /\ llm = "any"
    /\ chat_log = <<>>
    /\ n_delay = 0
    /\ previous = NoPrevious
    /\ stop_before = NoStopBefore
    /\ session_state = NoSession

\* run_task, lines 98-105: the reset and the entry of the for loop
RunTask ==
    /\ pc = "idle"
    /\ pc' = "loop"
    /\ steps' = <<>>
    /\ is_running' = TRUE
    /\ conversation_history' = <<>>
    /\ step_num' = 1
    /\ stop_before' = [pending |-> FALSE, run |-> stop_before.pending]
    /\ UNCHANGED <<max_steps, screenshot_b64, llm_response, parsed, exec_out,
                   result, stop_called, n_capture, n_chat, n_exec, p_in, p_out,
                   stop_at, callVars, chat_log, n_delay, llm, previous,
                   session_state, obsVars>>

\* lines 185-192, reached when the range is exhausted or by the break
MaxStepsReturn ==
    /\ is_running' = FALSE
    /\ result' = TaskResult(FALSE, "Max steps (max_steps) reached without completion",
                            "", steps)
    /\ pc' = "returned"

\* line 105: the range is exhausted
LoopExhausted ==
    /\ pc = "loop"
    /\ step_num > max_steps
    /\ MaxStepsReturn
    /\ UNCHANGED <<max_steps, step_num, steps, conversation_history,
                   screenshot_b64, llm_response, parsed, exec_out, stop_called,
                   n_capture, n_chat, n_exec, p_in, p_out, stop_at, callVars, runVars, obsVars>>

\* lines 106-107: the stop signal is seen at the top of an iteration
LoopBreak ==
    /\ pc = "loop"
    /\ step_num <= max_steps
    /\ ~is_running
    /\ MaxStepsReturn
    /\ UNCHANGED <<max_steps, step_num, steps, conversation_history,
                   screenshot_b64, llm_response, parsed, exec_out, stop_called,
                   n_capture, n_chat, n_exec, p_in, p_out, stop_at, callVars, runVars, obsVars>>

\* line 110: observe
Capture ==
    /\ pc = "loop"
    /\ step_num <= max_steps
    /\ is_running
    /\ screenshot_b64' = n_capture + 1
    /\ n_capture' = n_capture + 1
    /\ pc' = "chat"
    /\ UNCHANGED <<max_steps, step_num, is_running, steps, conversation_history,
                   llm_response, parsed, exec_out, result, stop_called,
                   n_chat, n_exec, p_in, p_out, stop_at, callVars, runVars, obsVars>>

\* lines 113-119: think; the model returns any text
Chat ==
    /\ pc = "chat"
    /\ \E text \in Replies : llm_response' = text
    /\ chat_log' = Append(chat_log,
                           [user_message |-> BuildUserMessage(step_num),
                            history |-> conversation_history,
                            response |-> llm_response'])
    /\ n_chat' = n_chat + 1
    /\ pc' = "parse"
    /\ UNCHANGED <<max_steps, step_num, is_running, steps, conversation_history,
                   screenshot_b64, parsed, exec_out, result, stop_called,
                   n_capture, n_exec, p_in, p_out, stop_at, callVars, n_delay,
                   lifeVars, obsVars>>

\* line 122
ParseResponse ==
    /\ pc = "parse"
    /\ parsed' = Parse(llm_response)
    /\ pc' = IF parsed'.raised THEN "raised" ELSE "execute"
    /\ n_parse' = n_parse + 1
    /\ UNCHANGED <<max_steps, step_num, is_running, steps, conversation_history,
                   screenshot_b64, llm_response, exec_out, result, stop_called,
                   n_capture, n_chat, n_exec, p_in, p_out, stop_at, callVars, runVars, on_step_callback, published, n_check>>

\* lines 125-129: act
Execute ==
    /\ pc = "execute"
    /\ \E prim_ok \in BOOLEAN : exec_out' = ExecuteAction(parsed.action, prim_ok)
    /\ n_exec' = n_exec + 1
    /\ pc' = IF exec_out'.raised THEN "raised" ELSE "record"
    /\ UNCHANGED <<max_steps, step_num, is_running, steps, conversation_history,
                   screenshot_b64, llm_response, parsed, result, stop_called,
                   n_capture, n_chat, p_in, p_out, stop_at, callVars, runVars, obsVars>>

\* lines 132-141: record the step
Record ==
    /\ pc = "record"
    /\ steps' = Append(steps, Step(step_num, screenshot_b64, parsed, exec_out.msg))
    /\ previous' = IF previous.some /\ previous.shared
                   THEN [previous EXCEPT !.list = steps']
                   ELSE previous
    /\ pc' = "callback"
    /\ UNCHANGED <<max_steps, step_num, is_running, conversation_history,
                   screenshot_b64, llm_response, parsed, exec_out, result,
                   stop_called, n_capture, n_chat, n_exec, p_in, p_out,
                   stop_at, callVars, chat_log, n_delay, llm, stop_before,
                   session_state, obsVars>>


\* Callback that leaves out a step that ends the run
CallbackSkipsFinal ==
    /\ pc = "callback"
    /\ published' = IF on_step_callback /\ ~IsDone(parsed) /\ parsed.status # "failed"
                    THEN Append(published, steps[Len(steps)])
                    ELSE published
    /\ pc' = "history"
    /\ UNCHANGED <<max_steps, step_num, is_running, steps, conversation_history,
                   screenshot_b64, llm_response, parsed, exec_out, result,
                   stop_called, n_capture, n_chat, n_exec, p_in, p_out,
                   stop_at, callVars, runVars, on_step_callback, n_parse, n_check>>

\* lines 144-145: the callback, when one is set, gets the step just appended
Callback ==
    /\ pc = "callback"
    /\ published' = IF on_step_callback
                    THEN Append(published, steps[Len(steps)])
                    ELSE published
    /\ pc' = "history"
    /\ UNCHANGED <<max_steps, step_num, is_running, steps, conversation_history,
                   screenshot_b64, llm_response, parsed, exec_out, result,
                   stop_called, n_capture, n_chat, n_exec, p_in, p_out,
                   stop_at, callVars, runVars, on_step_callback, n_parse, n_check>>


\* ExtendHistory keeping only the newest pair
ExtendHistoryKeepsNewest ==
    /\ pc = "history"
    /\ conversation_history' =
          << [role |-> "user", content |-> BuildUserMessage(step_num)],
             [role |-> "assistant", content |-> llm_response] >>
    /\ pc' = "check"
    /\ UNCHANGED <<max_steps, step_num, is_running, steps, screenshot_b64,
                   llm_response, parsed, exec_out, result, stop_called,
                   n_capture, n_chat, n_exec, p_in, p_out, stop_at, callVars,
                   runVars, obsVars>>

\* lines 148-155: extend the history
ExtendHistory ==
    /\ pc = "history"
    /\ conversation_history' =
          conversation_history \o
             << [role |-> "user", content |-> BuildUserMessage(step_num)],
                [role |-> "assistant", content |-> llm_response] >>
    /\ pc' = "check"
    /\ UNCHANGED <<max_steps, step_num, is_running, steps, screenshot_b64,
                   llm_response, parsed, exec_out, result, stop_called,
                   n_capture, n_chat, n_exec, p_in, p_out, stop_at, callVars, runVars,
                   obsVars>>

\* lines 158-171
CheckDone ==
    /\ pc = "check"
    /\ IsDone(parsed)
    /\ is_running' = FALSE
    /\ result' = TaskResult(TRUE, "",
                    Get(parsed.action.params, "message", JStr("Task completed")).v,
                    steps)
    /\ pc' = "returned"
    /\ n_check' = n_check + 1
    /\ UNCHANGED <<max_steps, step_num, steps, conversation_history,
                   screenshot_b64, llm_response, parsed, exec_out, stop_called,
                   n_capture, n_chat, n_exec, p_in, p_out, stop_at, callVars, runVars, on_step_callback, published, n_parse>>

\* CheckFailed without its return: a failed turn lets the loop go on
CheckFailedContinues ==
    /\ pc = "check"
    /\ ~IsDone(parsed)
    /\ parsed.status = "failed"
    /\ n_delay' = n_delay + 1
    /\ step_num' = step_num + 1
    /\ pc' = "loop"
    /\ n_check' = n_check + 1
    /\ UNCHANGED <<max_steps, is_running, steps, conversation_history,
                   screenshot_b64, llm_response, parsed, exec_out, result,
                   stop_called, n_capture, n_chat, n_exec, p_in, p_out, stop_at,
                   callVars, chat_log, lifeVars, on_step_callback, published,
                   n_parse>>

\* lines 173-180
CheckFailed ==
    /\ pc = "check"
    /\ ~IsDone(parsed)
    /\ parsed.status = "failed"
    /\ is_running' = FALSE
    /\ result' = TaskResult(FALSE, "Task failed: ", parsed.thought, steps)
    /\ pc' = "returned"
    /\ n_check' = n_check + 1
    /\ UNCHANGED <<max_steps, step_num, steps, conversation_history,
                   screenshot_b64, llm_response, parsed, exec_out, stop_called,
                   n_capture, n_chat, n_exec, p_in, p_out, stop_at, callVars, runVars, on_step_callback, published, n_parse>>

\* Delay with a return of failure when the execution did not succeed
DelayAbortsOnExecFailure ==
    /\ pc = "check"
    /\ ~IsDone(parsed)
    /\ parsed.status # "failed"
    /\ IF exec_out.success
       THEN /\ n_delay' = n_delay + 1
            /\ step_num' = step_num + 1
            /\ pc' = "loop"
            /\ UNCHANGED <<is_running, result>>
       ELSE /\ is_running' = FALSE
            /\ result' = TaskResult(FALSE, "Action failed: ", exec_out.msg, steps)
            /\ pc' = "returned"
            /\ UNCHANGED <<step_num, n_delay>>
    /\ n_check' = n_check + 1
    /\ UNCHANGED <<max_steps, steps, conversation_history, screenshot_b64,
                   llm_response, parsed, exec_out, stop_called, n_capture,
                   n_chat, n_exec, p_in, p_out, stop_at, callVars, chat_log,
                   lifeVars, on_step_callback, published, n_parse>>

\* line 183, time.sleep(step_delay), and the next value of the range
Delay ==
    /\ pc = "check"
    /\ ~IsDone(parsed)
    /\ parsed.status # "failed"
    /\ n_delay' = n_delay + 1
    /\ step_num' = step_num + 1
    /\ pc' = "loop"
    /\ n_check' = n_check + 1
    /\ UNCHANGED <<max_steps, is_running, steps, conversation_history,
                   screenshot_b64, llm_response, parsed, exec_out, result,
                   stop_called, n_capture, n_chat, n_exec, p_in, p_out, stop_at,
                   callVars, chat_log, lifeVars, on_step_callback, published,
                   n_parse>>

\* stop(), called from another thread at any moment of a run
Stop ==
    /\ Running
    /\ is_running' = FALSE
    /\ stop_called' = TRUE
    /\ stop_at' = IF stop_called THEN stop_at ELSE n_capture
    /\ UNCHANGED <<pc, max_steps, step_num, steps, conversation_history,
                   screenshot_b64, llm_response, parsed, exec_out, result,
                   n_capture, n_chat, n_exec, p_in, p_out, callVars, runVars, obsVars>>

Next ==
    \/ RunTask
    \/ LoopExhausted
    \/ LoopBreak
    \/ Capture
    \/ Chat
    \/ ParseResponse
    \/ Execute
    \/ Record
    \/ Callback
    \/ ExtendHistory
    \/ CheckDone
    \/ CheckFailed
    \/ Delay
    \/ Stop

Spec == Init /\ [][Next]_vars


-----------------------------------------------------------------------------
(* ActionParser.parse on its own, over a wider set of texts.               *)

Absent == [t |-> "absent"]

\* the dict with the keys of d whose value is not Absent
Present(d) == [k \in {j \in DOMAIN d : d[j].t # "absent"} |-> d[k]]

ThoughtValues == {Absent, JStr("plan"), JInt(7), JNull}

StatusValues ==
    {Absent, JStr("in_progress"), JStr("completed"), JStr("failed"),
     JStr("done"), JInt(1), JNull}

TypeValues ==
    {Absent, JStr("double_click"), JInt(3), JNull, JList(<<JStr("click")>>)}
       \cup {JStr(a) : a \in ActionType}

ParamDicts ==
    { EmptyDict,
      [x |-> JInt(10), y |-> JInt(20)],
      [x |-> JInt(10), y |-> JInt(20), button |-> JStr("right"), clicks |-> JInt(2)],
      [x |-> JInt(10), y |-> JInt(20), extra |-> JStr("z")],
      [x |-> JStr("100"), y |-> JFloat(500)],
      [x |-> JStr("abc"), y |-> JInt(20)],
      [x |-> JFloat(550), y |-> JInt(20)],
      [x |-> JInt(10)],
      [text |-> JStr("hi")],
      [text |-> JInt(5)],
      [text |-> JStr("hi"), interval |-> JInt(1)],
      [keys |-> JList(<<JStr("ctrl"), JStr("c")>>)],
      [keys |-> JStr("ctrl")],
      [keys |-> JList(<<JInt(1)>>)],
      [amount |-> JInt(3)],
      [amount |-> JInt(-3), x |-> JInt(1), y |-> JNull],
      [seconds |-> JInt(-1)],
      [seconds |-> JFloat(250)],
      [seconds |-> JNull],
      [message |-> JStr("all done")],
      [message |-> JInt(5)],
      [region |-> JList(<<JInt(0), JInt(0), JInt(8), JInt(8)>>)],
      [region |-> JList(<<JStr("a")>>)] }

ParamValues ==
    {Absent, JNull, JStr("x=1"), JList(<<JInt(1)>>)} \cup {JObj(d) : d \in ParamDicts}

ActionValues ==
    {Absent, JNull, JStr("click"), JList(<<>>)}
       \cup {JObj(Present([type |-> ty, params |-> pa])) :
                ty \in TypeValues, pa \in ParamValues}

ParseInputs ==
    {NoJson, Undecodable, DecodeRaises, Json(JInt(5)), Json(JNull),
     Json(JStr("done")), Json(JList(<<>>))}
       \cup {Json(JObj(Present([thought |-> th, status |-> st, action |-> ac]))) :
                th \in ThoughtValues, st \in StatusValues, ac \in ActionValues}

ParseCalled == "raised" \in DOMAIN p_out

InitParse ==
    /\ pc = "idle"
    /\ max_steps = 0
    /\ step_num = 0
    /\ is_running = FALSE
    /\ steps = <<>>
    /\ conversation_history = <<>>
    /\ screenshot_b64 = 0
    /\ llm_response = NoJson
    /\ parsed = Raised
    /\ exec_out = Raised
    /\ result = NoResult
    /\ stop_called = FALSE
    /\ n_capture = 0
    /\ n_chat = 0
    /\ n_exec = 0
    /\ p_in \in ParseInputs
    /\ p_out = NotCalled
    /\ stop_at = 0
    /\ on_step_callback = FALSE
    /\ published = <<>>
    /\ n_parse = 0
    /\ n_check = 0
    /\ llm = "any"
    /\ chat_log = <<>>
    /\ n_delay = 0
    /\ previous = NoPrevious
    /\ stop_before = NoStopBefore
    /\ session_state = NoSession
    /\ arg = NoCall
    /\ ret = NotCalled
    /\ dpi_scale = JNull

\* one call parse(p_in)
ParseCall ==
    /\ ~ParseCalled
    /\ p_out' = Parse(p_in)
    /\ UNCHANGED <<loopVars, p_in, callVars>>

NextParse == ParseCall

SpecParse == InitParse /\ [][NextParse]_vars


-----------------------------------------------------------------------------
(* GUITools.execute_action on its own, on every validated action.          *)

\* the orchestrator, the stand-alone parse call and the GUITools cache at rest
Idle ==
    /\ pc = "idle"
    /\ max_steps = 0
    /\ step_num = 0
    /\ is_running = FALSE
    /\ steps = <<>>
    /\ conversation_history = <<>>
    /\ screenshot_b64 = 0
    /\ llm_response = NoJson
    /\ parsed = Raised
    /\ exec_out = Raised
    /\ result = NoResult
    /\ stop_called = FALSE
    /\ n_capture = 0
    /\ n_chat = 0
    /\ n_exec = 0
    /\ stop_at = 0
    /\ on_step_callback = FALSE
    /\ published = <<>>
    /\ n_parse = 0
    /\ n_check = 0
    /\ llm = "any"
    /\ chat_log = <<>>
    /\ n_delay = 0
    /\ previous = NoPrevious
    /\ stop_before = NoStopBefore
    /\ session_state = NoSession
    /\ p_in = NoJson
    /\ p_out = NotCalled

Called == ret # NotCalled

\* the (kind, params) pairs whose params pass the kind's validator
ExecInputs ==
    {a \in {[fn |-> "execute_action", type |-> ty, params |-> d, prim_ok |-> ok] :
                ty \in ActionType, d \in ParamDicts, ok \in BOOLEAN} :
        Validate(PARAM_VALIDATORS[a.type], a.params).ok}

\* the dict parse hands on: kind and validated params
ValidatedAction(a) ==
    AgentAction(a.type, Validate(PARAM_VALIDATORS[a.type], a.params).v)

InitExec ==
    /\ Idle
    /\ arg \in ExecInputs
    /\ ret = NotCalled
    /\ dpi_scale = JNull

\* one call execute_action(action_dict)
ExecCall ==
    /\ arg.fn = "execute_action"
    /\ ~Called
    /\ ret' = ExecuteAction(ValidatedAction(arg), arg.prim_ok)
    /\ UNCHANGED <<loopVars, p_in, p_out, arg, dpi_scale>>

NextExec == ExecCall

SpecExec == InitExec /\ [][NextExec]_vars

-----------------------------------------------------------------------------
(* llm/ollama_client.py and llm/openai_compat_client.py: chat_with_image.  *)
(* The HTTP exchange either raises a requests.RequestException with some   *)
(* text e, or gives a decoded JSON body; a Python str that holds a model   *)
(* text is given, as everywhere, by what extract_json and json.loads make  *)
(* of it.                                                                  *)

IsText(v) == "k" \in DOMAIN v

EmptyText == NoJson

\* The texts str(e) of a RequestException, by what they hold: no brace and
\* no fence, a '{' never closed, a '}' never opened, a <think>...</think>
\* region, a ``` fence around an object with members, a ``` fence around {}.
ErrorTexts ==
    {"plain", "open_brace", "close_brace", "think_region", "fenced_object",
     "fenced_empty_object"}

\* json.dumps({"thought": prefix + e, "action": {"type": "done", "params":
\* {"message": message}}, "status": "failed"}), as extract_json and
\* json.loads read it back: e is copied into the text, so a fence in e is
\* the fenced block extract_json prefers, and a lone brace in e unbalances
\* the brace count; the quotes of a fenced object are escaped by dumps.
FailurePayload(prefix, message, e) ==
    CASE e = "open_brace" -> NoJson
      [] e = "close_brace" -> Undecodable
      [] e = "fenced_object" -> Undecodable
      [] e = "fenced_empty_object" -> Json(JObj(EmptyDict))
      [] OTHER -> Obj(prefix, "done", [message |-> JStr(message)], "failed")

RequestException(e) == [k |-> "request_exception", e |-> e]
Responded(body) == [k |-> "response", body |-> body]

\* OllamaClient.chat: the decoded body, or {"error": str(e)}
OllamaChat(transport) ==
    IF transport.k = "request_exception"
    THEN JObj([error |-> transport.e])
    ELSE transport.body

OllamaChatWithImage(transport) ==
    LET res == OllamaChat(transport)
    IN  IF "error" \in DOMAIN res.v
        THEN FailurePayload("Error communicating with LLM: ...", "LLM error",
                            res.v.error)
        ELSE LET message == Get(res.v, "message", JObj(EmptyDict))
             IN  IF IsText(message) THEN message
                 ELSE IF message.t = "obj"
                 THEN Get(message.v, "content", EmptyText)
                 ELSE EmptyText

OpenAICompatChatWithImage(transport) ==
    IF transport.k = "request_exception"
    THEN FailurePayload("Error communicating with API: ...", "API error",
                        transport.e)
    ELSE LET choices == Get(transport.body.v, "choices", JList(<<>>))
         IN  IF choices.v # <<>>
             THEN Get(Get(choices.v[1].v, "message", JObj(EmptyDict)).v,
                      "content", EmptyText)
             ELSE EmptyText

ChatWithImage(client, transport) ==
    [raised |-> FALSE,
     text |-> IF client = "ollama" THEN OllamaChatWithImage(transport)
              ELSE OpenAICompatChatWithImage(transport)]

OllamaBodies ==
    {JObj(EmptyDict), JObj([message |-> JNull]),
     JObj([message |-> JObj(EmptyDict)]),
     JObj([error |-> "plain"])}
       \cup {JObj([message |-> t]) : t \in LoopOutputs}
       \cup {JObj([message |-> JObj([role |-> JStr("assistant"), content |-> t])]) :
                t \in LoopOutputs}

OpenAIBodies ==
    {JObj(EmptyDict), JObj([choices |-> JList(<<>>)]),
     JObj([choices |-> JList(<<JObj(EmptyDict)>>)])}
       \cup {JObj([choices |-> JList(<<JObj([message |-> JObj([content |-> t])])>>)]) :
                t \in LoopOutputs}

ClientInputs ==
    {[fn |-> "chat_with_image", client |-> c, transport |-> tr] :
        c \in {"ollama"},
        tr \in {RequestException(e) : e \in ErrorTexts}
                  \cup {Responded(b) : b \in OllamaBodies}}
      \cup
    {[fn |-> "chat_with_image", client |-> c, transport |-> tr] :
        c \in {"openai_compat"},
        tr \in {RequestException(e) : e \in ErrorTexts}
                  \cup {Responded(b) : b \in OpenAIBodies}}

InitClient ==
    /\ Idle
    /\ arg \in ClientInputs
    /\ ret = NotCalled
    /\ dpi_scale = JNull

\* one call client.chat_with_image(...)
ClientCall ==
    /\ arg.fn = "chat_with_image"
    /\ ~Called
    /\ ret' = ChatWithImage(arg.client, arg.transport)
    /\ UNCHANGED <<loopVars, p_in, p_out, arg, dpi_scale>>

\* the text the client returned is handed to parse
ParseReply ==
    /\ arg.fn = "chat_with_image"
    /\ Called
    /\ ~ret.raised
    /\ ~ParseCalled
    /\ p_in' = ret.text
    /\ p_out' = Parse(ret.text)
    /\ UNCHANGED <<loopVars, callVars>>

NextClient == ClientCall \/ ParseReply

SpecClient == InitClient /\ [][NextClient]_vars

-----------------------------------------------------------------------------
(* Python's round(x / d * k) for integers x, d > 0, k >= 0, as the         *)
(* interpreter computes it: x / d is the IEEE-754 double nearest to the    *)
(* quotient, the product is rounded to a double again, and round() takes   *)
(* that double to the nearest integer, the even one when it is half-way.   *)
(* A double is a sequence of bits, most significant first, and the         *)
(* exponent of its last bit.                                               *)

\* bits of precision of a Python float
Mantissa == 53

\* the arithmetic below works on pieces of this many bits
Chunk == 15

BitLen(n) == CHOOSE l \in 0..30 : n < 2^l /\ (l = 0 \/ n >= 2^(l - 1))

NatToBits(n) == [i \in 1..BitLen(n) |-> (n \div 2^(BitLen(n) - i)) % 2]

RECURSIVE BitsToNat(_)
BitsToNat(bits) ==
    IF bits = <<>> THEN 0
    ELSE 2 * BitsToNat(SubSeq(bits, 1, Len(bits) - 1)) + bits[Len(bits)]

Zeros(n) == [i \in 1..n |-> 0]

StripZeros(bits) ==
    IF \A i \in DOMAIN bits : bits[i] = 0 THEN <<>>
    ELSE SubSeq(bits,
                CHOOSE i \in DOMAIN bits :
                    bits[i] = 1 /\ \A j \in 1..(i - 1) : bits[j] = 0,
                Len(bits))

\* bits + 1
Incr(bits) ==
    IF \A i \in DOMAIN bits : bits[i] = 1 THEN <<1>> \o Zeros(Len(bits))
    ELSE LET p == CHOOSE i \in DOMAIN bits :
                      bits[i] = 0 /\ \A j \in (i + 1)..Len(bits) : bits[j] = 1
         IN  SubSeq(bits, 1, p - 1) \o <<1>> \o Zeros(Len(bits) - p)

\* RoundNearestEven that drops the low bits
RoundDown(bits, keep, sticky) == SubSeq(bits, 1, keep)

\* the first keep bits of bits, rounded to nearest, ties to even; sticky
\* says that nonzero bits follow those of the sequence
RoundNearestEven(bits, keep, sticky) ==
    LET kept == SubSeq(bits, 1, keep)
        up == /\ Len(bits) > keep
              /\ bits[keep + 1] = 1
              /\ \/ \E i \in (keep + 2)..Len(bits) : bits[i] = 1
                 \/ sticky
                 \/ (keep > 0 /\ bits[keep] = 1)
    IN  IF up THEN Incr(kept) ELSE kept

\* the double nearest to bits * 2^e
Double(bits, e, sticky) ==
    LET b == StripZeros(bits)
    IN  IF Len(b) <= Mantissa THEN [m |-> b, e |-> e]
        ELSE [m |-> RoundNearestEven(b, Mantissa, sticky),
              e |-> e + Len(b) - Mantissa]

\* 2^i modulo d
Pow2Mod(i, d) ==
    LET t == (2^Chunk) % d
        s == (2^(i % Chunk)) % d
        RECURSIVE Times(_)
        Times(n) == IF n = 0 THEN s ELSE (Times(n - 1) * t) % d
    IN  Times(i \div Chunk)

\* a / d for a > 0: the quotient by long division, then rounded
FloatDiv(a, d) ==
    LET n == Mantissa + BitLen(d)
        Rem(i) == ((a % d) * Pow2Mod(i, d)) % d
    IN  Double(NatToBits(a \div d)
                  \o [i \in 1..n |-> IF 2 * Rem(i - 1) >= d THEN 1 ELSE 0],
               -n, Rem(n) # 0)

\* bits * k + carry, a chunk at a time from the low end
RECURSIVE MulBits(_, _, _)
MulBits(bits, k, carry) ==
    IF bits = <<>> THEN NatToBits(carry)
    ELSE LET w == IF Len(bits) < Chunk THEN Len(bits) ELSE Chunk
             t == BitsToNat(SubSeq(bits, Len(bits) - w + 1, Len(bits))) * k + carry
             low == NatToBits(t % 2^w)
         IN  MulBits(SubSeq(bits, 1, Len(bits) - w), k, t \div 2^w)
                \o Zeros(w - Len(low)) \o low

\* q * k for a double q > 0 and an integer k > 0
FloatMul(q, k) == Double(MulBits(q.m, k, 0), q.e, FALSE)

\* round(f) for a double f > 0
Round(f) ==
    LET w == Len(f.m) + f.e
    IN  IF w < 0 THEN 0
        ELSE BitsToNat(RoundNearestEven(f.m, w, FALSE))

\* round(x / d * k)
RoundScaled(x, d, k) ==
    IF x = 0 \/ k = 0 THEN 0
    ELSE IF x < 0 THEN -Round(FloatMul(FloatDiv(-x, d), k))
    ELSE Round(FloatMul(FloatDiv(x, d), k))

-----------------------------------------------------------------------------
(* tools/gui_tools.py: GUITools.convert_coordinates and _get_dpi_scale.    *)
(* A model identifier is a sequence of characters.  The environment of a   *)
(* call is config.COORD_FORMAT, pyautogui.size() and, on Windows, the      *)
(* physical screen width GetSystemMetrics(0) reports.                      *)

Size(w, h) == [w |-> w, h |-> h]

\* str.lower() on the letters the identifiers of the model use
LowerCase ==
    [c \in {"Q", "W", "E", "N", "V", "L"} |->
        CASE c = "Q" -> "q" [] c = "W" -> "w" [] c = "E" -> "e"
          [] c = "N" -> "n" [] c = "V" -> "v" [] c = "L" -> "l"]

Lower(name) ==
    [i \in DOMAIN name |->
        IF name[i] \in DOMAIN LowerCase THEN LowerCase[name[i]] ELSE name[i]]

\* sub in name
Contains(sub, name) ==
    \E i \in 0..(Len(name) - Len(sub)) : SubSeq(name, i + 1, i + Len(sub)) = sub

\* "qwen3"
KnownFamily == <<"q", "w", "e", "n", "3">>

\* lines 77-85 with the test made on model_name itself
ResolveFormatCaseSensitive(coord_format, model_name) ==
    IF coord_format = "auto"
    THEN IF Contains(KnownFamily, model_name)
         THEN "normalized_1000" ELSE "absolute"
    ELSE coord_format

\* lines 75-85: the format of this call
ResolveFormat(coord_format, model_name) ==
    IF coord_format = "auto"
    THEN IF Contains(KnownFamily, Lower(model_name))
         THEN "normalized_1000" ELSE "absolute"
    ELSE coord_format

\* lines 87-101 with the absolute mapping scaled to the last pixel
RealCoordinatesLastPixel(coord_format, x, y, image_size, screen) ==
    CASE coord_format = "normalized_1000" ->
            [x |-> RoundScaled(x, 1000, screen.w - 1),
             y |-> RoundScaled(y, 1000, screen.h - 1)]
      [] coord_format = "absolute" /\ image_size # JNull ->
            [x |-> RoundScaled(x, image_size.w, screen.w - 1),
             y |-> RoundScaled(y, image_size.h, screen.h - 1)]
      [] OTHER -> [x |-> x, y |-> y]

\* lines 87-101: real_x, real_y before the clamp
RealCoordinates(coord_format, x, y, image_size, screen) ==
    CASE coord_format = "normalized_1000" ->
            [x |-> RoundScaled(x, 1000, screen.w - 1),
             y |-> RoundScaled(y, 1000, screen.h - 1)]
      [] coord_format = "absolute" /\ image_size # JNull ->
            [x |-> RoundScaled(x, image_size.w, screen.w),
             y |-> RoundScaled(y, image_size.h, screen.h)]
      [] OTHER -> [x |-> x, y |-> y]

Min(a, b) == IF a < b THEN a ELSE b
Max(a, b) == IF a > b THEN a ELSE b

\* the clamp with the dimension itself as upper bound
ClampToDimension(v, dim) == Max(0, Min(v, dim))

\* the clamp without its lower bound
ClampAbove(v, dim) == Min(v, dim - 1)

\* lines 103-105
Clamp(v, dim) == Max(0, Min(v, dim - 1))

\* lines 71-73: screen_size, or pyautogui.size() when it is None
Screen(a) == IF a.screen_size = JNull THEN a.env.size ELSE a.screen_size

\* convert_coordinates with the format already resolved
ConvertAs(coord_format, a) ==
    LET real == RealCoordinates(coord_format, a.x, a.y, a.image_size, Screen(a))
    IN  [raised |-> FALSE,
         x |-> Clamp(real.x, Screen(a).w),
         y |-> Clamp(real.y, Screen(a).h)]

ConvertCoordinates(a) ==
    ConvertAs(ResolveFormat(a.env.COORD_FORMAT, a.model_name), a)

\* _get_dpi_scale: the cached factor, or physical over logical width on
\* Windows and 1.0 where ctypes.windll does not exist
GetDpiScale(cached, env) ==
    IF cached # JNull THEN cached
    ELSE IF env.windows /\ env.size.w > 0
    THEN JFloat((env.physical_w * 100) \div env.size.w)
    ELSE JFloat(100)

\* The raw pairs, image sizes, screen sizes, identifiers and environments
\* of the stand-alone calls.
RawPairs ==
    {<<500, 500>>, <<100, 50>>, <<-10, 2000>>, <<0, 0>>, <<1000, 1000>>,
     <<13, 14>>, <<16, 999>>}

ImageSizes ==
    {JNull, Size(800, 450), Size(1280, 720), Size(720, 800), Size(3840, 2160)}

ScreenSizes == {Size(1920, 1080), Size(3840, 2160), Size(1080, 600), Size(1, 1)}

ModelNames ==
    { <<>>,
      <<"q", "w", "e", "n", "3", "-", "v", "l", ":", "8", "b">>,
      <<"Q", "w", "e", "n", "3", "-", "V", "L">>,
      <<"m", "y", "-", "Q", "W", "E", "N", "3">>,
      <<"q", "w", "e", "n", "2", ".", "5", "-", "v", "l">>,
      <<"q", "w", "e", "n", "-", "v", "l", "-", "m", "a", "x">>,
      <<"q", "w", "e", "n", " ", "3">> }

Env(coord_format, windows, physical_w, size) ==
    [COORD_FORMAT |-> coord_format, windows |-> windows,
     physical_w |-> physical_w, size |-> size]

\* COORD_FORMAT is read from the process environment: any string
CoordFormats == {"auto", "normalized_1000", "absolute", "pixels"}

Displays ==
    {[windows |-> FALSE, physical_w |-> 1920, size |-> Size(1920, 1080)],
     [windows |-> TRUE, physical_w |-> 1920, size |-> Size(1920, 1080)],
     [windows |-> TRUE, physical_w |-> 3840, size |-> Size(1920, 1080)],
     [windows |-> TRUE, physical_w |-> 3840, size |-> Size(3840, 2160)]}

CoordInputs ==
    {[fn |-> "convert_coordinates", x |-> xy[1], y |-> xy[2],
      image_size |-> im, screen_size |-> sc[1], model_name |-> fm[2],
      env |-> Env(fm[1], sc[2].windows, sc[2].physical_w, sc[2].size)] :
        xy \in RawPairs,
        im \in ImageSizes,
        sc \in ({JNull} \X Displays)
                 \cup (ScreenSizes \X {d \in Displays : d.physical_w # d.size.w}),
        fm \in ({"auto"} \X ModelNames)
                 \cup ((CoordFormats \ {"auto"})
                          \X {n \in ModelNames : Len(n) \in {0, 11}})}

InitCoord ==
    /\ Idle
    /\ arg \in CoordInputs
    /\ ret = NotCalled
    /\ dpi_scale = JNull

\* one call convert_coordinates(x, y, image_size, screen_size, model_name)
ConvertCall ==
    /\ arg.fn = "convert_coordinates"
    /\ ~Called
    /\ ret' = ConvertCoordinates(arg)
    /\ UNCHANGED <<loopVars, p_in, p_out, arg, dpi_scale>>

\* a call _get_dpi_scale()
GetDpiScaleCall ==
    /\ arg.fn = "convert_coordinates"
    /\ dpi_scale' = GetDpiScale(dpi_scale, arg.env)
    /\ UNCHANGED <<loopVars, p_in, p_out, arg, ret>>

NextCoord == ConvertCall \/ GetDpiScaleCall

SpecCoord == InitCoord /\ [][NextCoord]_vars

-----------------------------------------------------------------------------
(* The act step of an iteration: run_task's call of execute_action and the *)
(* position the input primitive of a spatial action receives.             *)

\* execute_action, the click, move and scroll branches: the position handed
\* to self.click, self.move or self.scroll (JNull: a scroll with no position)
SpatialTarget(action, image_size, model_name, env) ==
    LET raw_x == action.params.x
        raw_y == action.params.y
    IN  IF action.type = "scroll" /\ (raw_x = JNull \/ raw_y = JNull)
        THEN JNull
        ELSE ConvertCoordinates([x |-> raw_x.v, y |-> raw_y.v,
                                 image_size |-> image_size,
                                 screen_size |-> JNull,
                                 model_name |-> model_name, env |-> env])

\* run_task's call execute_action(action_dict): image_size and model_name
\* are left at their defaults None and ""
RunTaskExecute(action, env) == SpatialTarget(action, JNull, <<>>, env)

\* the sizes capture_to_base64 gives after its thumbnail to 1920x1080
SentSizes == {Size(1920, 1080), Size(1280, 720)}

SpatialParams ==
    {[x |-> JInt(xy[1]), y |-> JInt(xy[2])] : xy \in RawPairs}
       \cup {[amount |-> JInt(3)], [amount |-> JInt(3), x |-> JInt(5)]}

\* an iteration at its act step: the environment, the identifier of the
\* model in use, the size of the image sent and the validated action
ActInputs ==
    {[fn |-> "run_task_act", type |-> tp[1], params |-> tp[2],
      sent |-> im, model |-> fm[2],
      env |-> Env(fm[1], d.windows, d.physical_w, d.size)] :
        tp \in {q \in {"click", "move", "scroll"} \X SpatialParams :
                   Validate(PARAM_VALIDATORS[q[1]], q[2]).ok},
        im \in SentSizes,
        d \in {e \in Displays : e.physical_w = e.size.w},
        fm \in ({"auto"} \X ModelNames) \cup {<<"normalized_1000", <<>>>>}}

InitAct ==
    /\ Idle
    /\ arg \in ActInputs
    /\ ret = NotCalled
    /\ dpi_scale = JNull

\* lines 125-129 of run_task for a spatial action
ActCall ==
    /\ arg.fn = "run_task_act"
    /\ ~Called
    /\ ret' = RunTaskExecute(ValidatedAction(arg), arg.env)
    /\ UNCHANGED <<loopVars, p_in, p_out, arg, dpi_scale>>

NextAct == ActCall

SpecAct == InitAct /\ [][NextAct]_vars

-----------------------------------------------------------------------------
(* agent/action_parser.py: ActionParser.extract_json.  A text is the       *)
(* sequence of its characters; the two characters of the Chinese word for *)
(* "step", the full-width colon and the backtick are written by their     *)
(* code points.  The function returns a str or None.                      *)

None == [some |-> FALSE]
Some(s) == [some |-> TRUE, s |-> s]

ThinkOpen == <<"<", "t", "h", "i", "n", "k", ">">>
ThinkClose == <<"<", "/", "t", "h", "i", "n", "k", ">">>
NoThinkMarker == <<"/", "n", "o", "_", "t", "h", "i", "n", "k">>
ThinkMarker == <<"/", "t", "h", "i", "n", "k">>
\* three backticks
Fence == <<"U+0060", "U+0060", "U+0060">>
JsonWord == <<"j", "s", "o", "n">>

\* the characters \s and str.strip() take for blank, among those of the texts
Whitespace == {" ", "\n", "\t"}

\* \d
Digits == {"0", "1", "2", "3", "4", "5", "6", "7", "8", "9"}

\* "step" under re.IGNORECASE, and its Chinese word
StepWords ==
    {w \in [1..4 -> {"S", "s", "T", "t", "E", "e", "P", "p"}] :
        /\ w[1] \in {"S", "s"} /\ w[2] \in {"T", "t"}
        /\ w[3] \in {"E", "e"} /\ w[4] \in {"P", "p"}}
      \cup {<<"U+6B65", "U+9AA4">>}

Colons == {":", "U+FF1A"}

\* sub occurs in t at position i
StartsAt(sub, t, i) ==
    /\ i >= 1
    /\ i + Len(sub) - 1 <= Len(t)
    /\ SubSeq(t, i, i + Len(sub) - 1) = sub

Occurrences(sub, t) == {i \in 1..Len(t) : StartsAt(sub, t, i)}

Least(S) == CHOOSE m \in S : \A n \in S : m <= n

\* the first position from i on whose character is not in class (Len(t) + 1
\* when there is none): where a greedy class* or class+ stops
Skip(class, t, i) ==
    Least({k \in i..(Len(t) + 1) : k = Len(t) + 1 \/ t[k] \notin class})

\* from position i to the end
From(t, i) == SubSeq(t, i, Len(t))

\* line 93: re.sub(r'<think>.*?</think>', '', text, flags=re.DOTALL)
RECURSIVE RemoveThink(_)
RemoveThink(t) ==
    LET Closes(i) == {j \in Occurrences(ThinkClose, t) : j >= i + Len(ThinkOpen)}
        opened == {i \in Occurrences(ThinkOpen, t) : Closes(i) # {}}
    IN  IF opened = {} THEN t
        ELSE LET i == Least(opened)
                 j == Least(Closes(i))
             IN  SubSeq(t, 1, i - 1)
                    \o RemoveThink(From(t, j + Len(ThinkClose)))

\* line 95: re.sub(r'/no_think|/think', '', text)
RECURSIVE RemoveMarkers(_)
RemoveMarkers(t) ==
    LET marked == Occurrences(NoThinkMarker, t) \cup Occurrences(ThinkMarker, t)
    IN  IF marked = {} THEN t
        ELSE LET i == Least(marked)
                 n == IF StartsAt(NoThinkMarker, t, i)
                      THEN Len(NoThinkMarker) ELSE Len(ThinkMarker)
             IN  SubSeq(t, 1, i - 1) \o RemoveMarkers(From(t, i + n))

\* str.strip()
Strip(t) ==
    LET solid == {i \in 1..Len(t) : t[i] \notin Whitespace}
    IN  IF solid = {} THEN <<>>
        ELSE SubSeq(t, Least(solid), CHOOSE m \in solid : \A n \in solid : n <= m)

\* line 99: re.sub(r'^(...|Step)\s*\d+\s*[:<U+FF1A>]\s*', '', text, flags=re.IGNORECASE)
RemovePrefix(t) ==
    LET words == {w \in StepWords : StartsAt(w, t, 1)}
    IN  IF words = {} THEN t
        ELSE LET w == CHOOSE v \in words : TRUE
                 num == Skip(Whitespace, t, Len(w) + 1)
                 sep == Skip(Whitespace, t, Skip(Digits, t, num))
             IN  IF /\ Skip(Digits, t, num) > num
                    /\ sep <= Len(t)
                    /\ t[sep] \in Colons
                 THEN From(t, Skip(Whitespace, t, sep + 1))
                 ELSE t

\* lines 93-100
Clean(text) == Strip(RemovePrefix(Strip(RemoveMarkers(RemoveThink(text)))))

\* the scan of lines 108-122 stopped at its first closing brace
FirstClosedSpan(t) ==
    LET opens == {i \in 1..Len(t) : t[i] = "{"}
        ends == {i \in 1..Len(t) : t[i] = "}" /\ \E j \in opens : j < i}
    IN  IF ends = {} THEN None
        ELSE Some(SubSeq(t, Least(opens), Least(ends)))

\* no code block is looked for
NoFencedBlock(t) == None

\* lines 104-106: re.search of a fence, an optional "json", \s*, the group
\* \{[\s\S]*?\}, \s* and a fence; the value is group 1 of the leftmost match
FencedBlock(t) ==
    LET Open(i) == Skip(Whitespace, t,
                        IF StartsAt(JsonWord, t, i + Len(Fence))
                        THEN i + Len(Fence) + Len(JsonWord)
                        ELSE i + Len(Fence))
        Ends(i) == {k \in (Open(i) + 1)..Len(t) :
                       /\ t[k] = "}"
                       /\ StartsAt(Fence, t, Skip(Whitespace, t, k + 1))}
        matches == {i \in Occurrences(Fence, t) :
                       /\ Open(i) <= Len(t)
                       /\ t[Open(i)] = "{"
                       /\ Ends(i) # {}}
    IN  IF matches = {} THEN None
        ELSE LET i == Least(matches)
             IN  Some(SubSeq(t, Open(i), Least(Ends(i))))

\* lines 108-122, the loop from position i on with the brace_count and the
\* start_idx it has there (positions count from 1)
RECURSIVE ScanFrom(_, _, _, _)
ScanFrom(t, i, brace_count, start_idx) ==
    IF i > Len(t) THEN None
    ELSE IF t[i] = "{"
    THEN ScanFrom(t, i + 1, brace_count + 1,
                  IF brace_count = 0 THEN i ELSE start_idx)
    ELSE IF t[i] = "}"
    THEN IF brace_count - 1 = 0 /\ start_idx # -1
         THEN Some(SubSeq(t, start_idx, i))
         ELSE ScanFrom(t, i + 1, brace_count - 1, start_idx)
    ELSE ScanFrom(t, i + 1, brace_count, start_idx)

\* lines 108-122: the first complete object of the text
BraceScan(t) == ScanFrom(t, 1, 0, -1)

\* extract_json(text)
ExtractJson(text) ==
    LET t == Clean(text)
    IN  IF FencedBlock(t) # None THEN FencedBlock(t) ELSE BraceScan(t)

\* The texts of the stand-alone calls: a lead, the opening of a code block,
\* a body, the closing of the block and a trail, each possibly empty.
\* what precedes: a raw object, a step prefix, a stray brace, reasoning, a
\* code block, a marker inside the letters of a reasoning tag
Leads ==
    {<<>>,
     <<"{", "\"", "b", "\"", ":", "2", "}", " ">>,
     <<"S", "t", "e", "p", " ", "1", ":", " ">>,
     <<"s", "T", "E", "P", " ", "1", "2", "U+FF1A", "\n">>,
     <<"U+6B65", "U+9AA4", "1", ":">>,
     <<"}", " ">>,
     <<"<", "t", "h", "i", "n", "k", ">">>,
     <<"n", "o", "i", "s", "e", " ">>,
     <<"U+0060", "U+0060", "U+0060", "\n", "x", "\n", "U+0060", "U+0060", "U+0060", " ">>,
     <<"<", "t", "h", "i", "/", "t", "h", "i", "n", "k", "n", "k", ">">>}

\* the opening fence
Opens ==
    {<<>>,
     <<"U+0060", "U+0060", "U+0060", "j", "s", "o", "n", "\n">>,
     <<"U+0060", "U+0060", "U+0060", "j", "s", "o", "n">>,
     <<"U+0060", "U+0060", "U+0060", "\n">>}

\* the body
Bodies ==
    {<<"{", "\"", "a", "\"", ":", "1", "}">>,
     <<"{", "\"", "a", "\"", ":", "{", "\"", "b", "\"", ":", "1", "}", "}">>,
     <<"{", "}">>,
     <<"[", "1", "]">>,
     <<"h", "e", "l", "l", "o">>,
     <<"{", "\"", "a", "\"", ":", "1", "}", " ", "x">>,
     <<"{">>,
     <<"{", "\"", "a", "\"", ":", "\"", "}", "\"", "}">>}

\* the closing fence
Closes ==
    {<<>>,
     <<"\n", "U+0060", "U+0060", "U+0060">>,
     <<"U+0060", "U+0060", "U+0060">>}

\* what follows
Trails ==
    {<<>>,
     <<" ", "t", "r", "a", "i", "l", "i", "n", "g">>,
     <<"<", "/", "t", "h", "i", "n", "k", ">">>,
     <<"/", "n", "o", "_", "t", "h", "i", "n", "k">>,
     <<"<", "/", "t", "h", "i", "n", "k", ">", "{", "}">>,
     <<"\n", "U+0060", "U+0060", "U+0060", "j", "s", "o", "n", "{", "}", "U+0060", "U+0060", "U+0060">>,
     <<"<", "/", "t", "h", "/", "t", "h", "i", "n", "k", "i", "n", "k", ">", "{", "}">>}

ExtractInputs ==
    {[fn |-> "extract_json", text |-> le \o op \o bo \o cl \o tr] :
        le \in Leads, op \in Opens, bo \in Bodies, cl \in Closes, tr \in Trails}

InitExtract ==
    /\ Idle
    /\ arg \in ExtractInputs
    /\ ret = NotCalled
    /\ dpi_scale = JNull

\* json.loads on the candidates extract_json gives for these texts: six of
\* them are JSON documents, the others end in a JSONDecodeError
JsonLoads(s) ==
    CASE s = <<"{", "}">> -> Json(JObj(EmptyDict))
      [] s = <<"{", "\"", "a", "\"", ":", "1", "}">> -> Json(JObj([a |-> JInt(1)]))
      [] s = <<"{", "\"", "b", "\"", ":", "2", "}">> -> Json(JObj([b |-> JInt(2)]))
      [] s = <<"{", "\"", "b", "\"", ":", "1", "}">> -> Json(JObj([b |-> JInt(1)]))
      [] s = <<"{", "\"", "a", "\"", ":", "{", "\"", "b", "\"", ":", "1", "}", "}">> ->
            Json(JObj([a |-> JObj([b |-> JInt(1)])]))
      [] s = <<"{", "\"", "a", "\"", ":", "\"", "}", "\"", "}">> -> Json(JObj([a |-> JStr("}")]))
      [] OTHER -> Undecodable

\* Decode with an empty object taken when no candidate is found
DecodeOrEmptyObject(text) ==
    IF ExtractJson(text) = None THEN Json(JObj(EmptyDict))
    ELSE JsonLoads(ExtractJson(text).s)

\* parse, lines 135-157: what extract_json and json.loads make of the text
Decode(text) ==
    IF ExtractJson(text) = None THEN NoJson ELSE JsonLoads(ExtractJson(text).s)

\* one call extract_json(text)
ExtractCall ==
    /\ arg.fn = "extract_json"
    /\ ~Called
    /\ ret' = ExtractJson(arg.text)
    /\ UNCHANGED <<loopVars, p_in, p_out, arg, dpi_scale>>

\* one call parse(text)
ParseTextCall ==
    /\ arg.fn = "extract_json"
    /\ ~ParseCalled
    /\ p_in' = Decode(arg.text)
    /\ p_out' = Parse(p_in')
    /\ UNCHANGED <<loopVars, arg, ret, dpi_scale>>

NextExtract == ExtractCall \/ ParseTextCall

SpecExtract == InitExtract /\ [][NextExtract]_vars

-----------------------------------------------------------------------------
(* Properties.                                                             *)

\* a value of exactly the declared type of a field (no conversion)
HasType(ty, val) ==
    CASE ty = "int" -> val.t = "int"
      [] ty = "float" -> val.t = "float"
      [] ty = "str" -> val.t = "str"
      [] ty = "list_str" ->
            val.t = "list" /\ \A i \in DOMAIN val.v : val.v[i].t = "str"
      [] ty = "opt_int" -> val.t \in {"null", "int"}
      [] ty = "opt_list_int" ->
            \/ val.t = "null"
            \/ val.t = "list" /\ \A i \in DOMAIN val.v : val.v[i].t = "int"

\* params holds exactly the fields of the kind's schema, each of its type
Conforms(type, params) ==
    /\ DOMAIN params = DOMAIN PARAM_VALIDATORS[type]
    /\ \A f \in DOMAIN params : HasType(PARAM_VALIDATORS[type][f].ty, params[f])

TerminalStep(s) == s.status \in {"completed", "failed"} \/ s.action_type = "done"

InProgressStep(s) == s.status = "in_progress" /\ s.action_type # "done"

Ended == pc \in {"returned", "raised"}

\* C1: run_task ends within max_steps iterations with one TaskResult; no
\* model output makes an exception escape run_task, and the step list never
\* holds more than max_steps steps.
C1_RunAlwaysReturns ==
    /\ pc # "raised"
    /\ Len(steps) <= max_steps
    /\ n_chat <= max_steps
    /\ pc = "returned" => result.returned

\* C2: a turn with status failed ends the run with success = false and a
\* message built from the turn's thought, whatever the action kind of the
\* turn (the validator's done/failed turns included).
C2_FailedTurnFailsRun ==
    (Ended /\ ~parsed.raised /\ parsed.status = "failed")
        => /\ pc = "returned"
           /\ ~result.success
           /\ result.message = [prefix |-> "Task failed: ", text |-> parsed.thought]

\* C3: a turn with status completed or action kind done ends the run with
\* success = true and the action's message param as the message, "Task
\* completed" when the params have none.
C3_DoneTurnSucceeds ==
    (Ended /\ ~parsed.raised /\ IsDone(parsed))
        => /\ pc = "returned"
           /\ result.success
           /\ result.message =
                 [prefix |-> "",
                  text |-> IF "message" \in DOMAIN parsed.action.params
                           THEN parsed.action.params.message.v
                           ELSE "Task completed"]

\* C4: when every response parses to an in_progress turn with a non-done
\* action and stop is not called, the run makes exactly max_steps iterations
\* and returns success = false with max_steps steps.
C4_AllInProgressRunsToCap ==
    ( /\ Ended
      /\ ~stop_called
      /\ \A i \in DOMAIN steps : InProgressStep(steps[i])
      /\ n_chat = 0 \/ (~parsed.raised /\ parsed.status = "in_progress"
                                       /\ parsed.action.type # "done") )
        => /\ pc = "returned"
           /\ ~result.success
           /\ Len(result.steps) = max_steps
           /\ n_capture = max_steps /\ n_chat = max_steps /\ n_exec = max_steps

\* C5: the first terminal turn (completed, failed or done), at iteration k,
\* is the last one: no step follows a terminal step, no capture, model call,
\* execution or step append is made after iteration k, and the TaskResult
\* returned has exactly k steps.
C5_StopsAtTerminalTurn ==
    /\ \A i \in 1..(Len(steps) - 1) : ~TerminalStep(steps[i])
    /\ (~parsed.raised /\ (IsDone(parsed) \/ parsed.status = "failed"))
          => /\ pc \in {"execute", "record", "callback", "history", "check",
                       "returned", "raised"}
             /\ n_capture = step_num /\ n_chat = step_num
             /\ n_exec <= step_num /\ Len(steps) <= step_num
    /\ \A i \in DOMAIN steps :
          TerminalStep(steps[i])
             => /\ i = step_num
                /\ n_capture = i /\ n_chat = i /\ n_exec = i
                /\ pc \in {"callback", "history", "check", "returned"}
                /\ result.returned => Len(result.steps) = i

C5_Witness ==
    /\ result.returned
    /\ Len(result.steps) = 2
    /\ max_steps > 2
    /\ result.steps[2].status = "failed"

\* C6: parse never raises and returns an action whose type is an
\* ActionType and whose params conform to the schema of that type.
C6_ParseTotal ==
    ParseCalled
        => /\ ~p_out.raised
           /\ p_out.action.type \in ActionType
           /\ Conforms(p_out.action.type, p_out.action.params)

\* the parsing-stage failures: no candidate, a candidate that does not
\* decode, a decoded value that is no object, an action that is no object,
\* an action type that is no ActionType string
ParsingStageFailure(text) ==
    \/ text.k \in {"nojson", "undecodable"}
    \/ /\ text.k = "json"
       /\ \/ text.v.t # "obj"
          \/ /\ "action" \in DOMAIN text.v.v
             /\ \/ text.v.v.action.t # "obj"
                \/ /\ "type" \in DOMAIN text.v.v.action.v
                   /\ ~IsActionType(text.v.v.action.v.type)

CauseMessages ==
    {"Parse error: No JSON found", "JSON parse error: ...",
     "Invalid response format", "Invalid action format: ...",
     "Unknown action type: ...", "<exception text>"}

\* C7: every parsing-stage failure makes parse return a turn with action
\* done, a message param that names the cause, and status failed.
C7_ParsingFailureIsDoneFailed ==
    (ParseCalled /\ ParsingStageFailure(p_in))
        => /\ ~p_out.raised
           /\ p_out.action.type = "done"
           /\ "message" \in DOMAIN p_out.action.params
           /\ p_out.action.params.message.t = "str"
           /\ p_out.action.params.message.v \in CauseMessages
           /\ p_out.status = "failed"

C7_Witness ==
    /\ ParseCalled
    /\ p_in.k = "json"
    /\ p_in.v.t = "obj"
    /\ "action" \in DOMAIN p_in.v.v
    /\ p_in.v.v.action.t = "obj"
    /\ "type" \in DOMAIN p_in.v.v.action.v
    /\ p_in.v.v.action.v.type = JStr("double_click")
    /\ ~p_out.raised
    /\ p_out.action = DoneAction("Unknown action type: ...")
    /\ p_out.status = "failed"

\* C8: the status of every response parse returns is in_progress,
\* completed or failed.
C8_StatusClosed ==
    (ParseCalled /\ ~p_out.raised)
        => p_out.status \in {"in_progress", "completed", "failed"}

\* C9: during a run the step list only grows at its end, and its i-th
\* element carries step_number i.
C9_StepsAppendOnly ==
    [][ /\ pc # "idle" => /\ Len(steps') >= Len(steps)
                          /\ SubSeq(steps', 1, Len(steps)) = steps
        /\ \A i \in DOMAIN steps' : steps'[i].step_number = i ]_vars

C9_Witness ==
    /\ Len(steps) >= 2
    /\ steps[1].step_number = 1
    /\ steps[2].step_number = 2

\* C10: after a step whose turn is in_progress with a non-done action the
\* run goes on to the next value of the loop variable without returning,
\* whether the execution succeeded or not.
C10_ExecutionFailureNotFatal ==
    [][ ( /\ pc = "check"
          /\ parsed.status = "in_progress"
          /\ parsed.action.type # "done"
          /\ pc' # "check" )
           => /\ pc' = "loop"
              /\ step_num' = step_num + 1
              /\ result' = NoResult ]_vars

C10_Witness ==
    /\ pc = "chat"
    /\ step_num >= 2
    /\ ~exec_out.raised
    /\ ~exec_out.success
    /\ Len(steps) = step_num - 1

\* C11: the step recorded for an execution tells whether that execution
\* succeeded: no execution of the same action with the other success flag
\* would have left the same step record.
C11_StepCarriesSuccessFlag ==
    pc = "check" =>
        \A prim_ok \in BOOLEAN :
            LET other == ExecuteAction(parsed.action, prim_ok)
            IN  (~other.raised /\ other.success # exec_out.success)
                    => steps[Len(steps)]
                         # Step(step_num, screenshot_b64, parsed, other.msg)

\* C12: execute_action, given any validated action, returns a success flag
\* and a message and raises nothing; a failing input primitive gives
\* success = false.
C12_ExecuteActionTotal ==
    (arg.fn = "execute_action" /\ Called)
        => /\ ~ret.raised
           /\ ret.success \in BOOLEAN
           /\ (arg.type \in {"click", "move", "type", "hotkey", "scroll"}
                  /\ ~arg.prim_ok) => ~ret.success

\* C13: once stop() has been called with stop_at iterations begun, no
\* further iteration begins, and the run ends with the step of the
\* iteration in flight recorded and, unless that step's turn is terminal,
\* with a TaskResult of success = false.
C13_StopEndsRunAfterIteration ==
    stop_called =>
        /\ n_capture = stop_at
        /\ n_chat <= stop_at
        /\ n_exec <= stop_at
        /\ Len(steps) <= stop_at
        /\ Ended => /\ Len(steps) = stop_at
                    /\ result.returned
                    /\ (stop_at = 0 \/ ~TerminalStep(steps[stop_at]))
                          => ~result.success

\* C14: when the HTTP exchange raises a RequestException, chat_with_image
\* of either client returns a text, and parse makes of that text a turn
\* with action type done and status failed.
C14_TransportFailureIsDoneFailed ==
    (arg.fn = "chat_with_image" /\ arg.transport.k = "request_exception")
        => /\ Called => ~ret.raised
           /\ ParseCalled => /\ ~p_out.raised
                             /\ p_out.action.type = "done"
                             /\ p_out.status = "failed"

ConvertCalled == arg.fn = "convert_coordinates" /\ Called

\* the format a convert_coordinates call of the model works in
FormatOf(a) ==
    IF a.env.COORD_FORMAT = "auto"
    THEN IF a.model_name \in { <<"q", "w", "e", "n", "3", "-", "v", "l", ":", "8", "b">>,
                               <<"Q", "w", "e", "n", "3", "-", "V", "L">>,
                               <<"m", "y", "-", "Q", "W", "E", "N", "3">> }
         THEN "normalized_1000" ELSE "absolute"
    ELSE a.env.COORD_FORMAT

\* v brought into 0..dim-1
Within(v, dim) == IF v < 0 THEN 0 ELSE IF v > dim - 1 THEN dim - 1 ELSE v

\* r is an integer nearest to n / d
Nearest(r, n, d) == 2 * r * d - 2 * n <= d /\ 2 * n - 2 * r * d <= d

\* out is Python's round(x / d * k) brought into 0..dim-1: an integer
\* nearest to x * k / d, and the even one when x / d is a multiple of
\* 1/8 and x * k / d lies half-way between two integers
IsRoundedThenClamped(out, x, d, k, dim) ==
    \E r \in {(x * k) \div d, (x * k) \div d + 1} :
        /\ Nearest(r, x * k, d)
        /\ ((8 * x) % d = 0 /\ (2 * x * k) % d = 0 /\ (x * k) % d # 0)
              => r % 2 = 0
        /\ out = Within(r, dim)

\* C15 as stated: in normalized_1000 mode the pair is round(x/1000*(sw-1)),
\* round(y/1000*(sh-1)) with (500, 500) on 1920x1080 giving (959, 539).
C15_NormalizedExample959 ==
    (ConvertCalled /\ FormatOf(arg) = "normalized_1000")
        => /\ IsRoundedThenClamped(ret.x, arg.x, 1000, Screen(arg).w - 1, Screen(arg).w)
           /\ IsRoundedThenClamped(ret.y, arg.y, 1000, Screen(arg).h - 1, Screen(arg).h)
           /\ (arg.x = 500 /\ arg.y = 500 /\ Screen(arg) = Size(1920, 1080))
                 => (ret.x = 959 /\ ret.y = 539)

\* C15 amended: in normalized_1000 mode the pair is Python's
\* round(x/1000*(sw-1)), round(y/1000*(sh-1)), clamped to the screen: each
\* a nearest integer to the exact value, the even one for a half-way
\* product, so that (500, 500) on 1920x1080 gives (960, 540).
C15_NormalizedMapping ==
    (ConvertCalled /\ FormatOf(arg) = "normalized_1000")
        => /\ IsRoundedThenClamped(ret.x, arg.x, 1000, Screen(arg).w - 1, Screen(arg).w)
           /\ IsRoundedThenClamped(ret.y, arg.y, 1000, Screen(arg).h - 1, Screen(arg).h)
           /\ (arg.x = 500 /\ arg.y = 500 /\ Screen(arg) = Size(1920, 1080))
                 => (ret.x = 960 /\ ret.y = 540)

C15_Witness ==
    /\ ConvertCalled
    /\ FormatOf(arg) = "normalized_1000"
    /\ arg.x = 500 /\ arg.y = 500
    /\ Screen(arg) = Size(1920, 1080)
    /\ ret.x = 960 /\ ret.y = 540

\* C16: in absolute mode with an image size the pair is round(x/iw*sw),
\* round(y/ih*sh) before the clamp, (100, 50) with image 800x450 on
\* 1920x1080 giving (240, 120); without an image size it is the raw pair,
\* clamped.
C16_AbsoluteMapping ==
    (ConvertCalled /\ FormatOf(arg) = "absolute")
        => IF arg.image_size # JNull
           THEN /\ IsRoundedThenClamped(ret.x, arg.x, arg.image_size.w,
                                        Screen(arg).w, Screen(arg).w)
                /\ IsRoundedThenClamped(ret.y, arg.y, arg.image_size.h,
                                        Screen(arg).h, Screen(arg).h)
                /\ ( /\ arg.x = 100 /\ arg.y = 50
                     /\ arg.image_size = Size(800, 450)
                     /\ Screen(arg) = Size(1920, 1080) )
                      => (ret.x = 240 /\ ret.y = 120)
           ELSE /\ ret.x = Within(arg.x, Screen(arg).w)
                /\ ret.y = Within(arg.y, Screen(arg).h)

C16_Witness ==
    /\ ConvertCalled
    /\ FormatOf(arg) = "absolute"
    /\ arg.x = 100 /\ arg.y = 50
    /\ arg.image_size = Size(800, 450)
    /\ Screen(arg) = Size(1920, 1080)
    /\ ret.x = 240 /\ ret.y = 120

\* C17: the pair convert_coordinates returns lies on the screen:
\* 0 <= x' <= sw-1 and 0 <= y' <= sh-1, whatever the format, the raw pair,
\* the image size and the screen size.
C17_ResultOnScreen ==
    ConvertCalled
        => /\ ~ret.raised
           /\ 0 <= ret.x /\ ret.x <= Screen(arg).w - 1
           /\ 0 <= ret.y /\ ret.y <= Screen(arg).h - 1

C17_Witness ==
    /\ ConvertCalled
    /\ arg.x = 1000 /\ arg.y = 1000
    /\ FormatOf(arg) = "absolute"
    /\ arg.image_size = Size(800, 450)
    /\ Screen(arg) = Size(1080, 600)
    /\ ret.x = 1079 /\ ret.y = 599

\* C18 as stated: the raw pair (-10, 2000) becomes (0, sh-1) for every
\* screen size, format and image size.
C18_OutOfRangePairToCorner ==
    (ConvertCalled /\ arg.x = -10 /\ arg.y = 2000)
        => (ret.x = 0 /\ ret.y = Screen(arg).h - 1)

\* C18 amended: the raw pair (-10, 2000) becomes x' = 0 always, and
\* y' = sh-1 in normalized_1000 mode, y' = min(round(2000/ih*sh), sh-1)
\* in absolute mode with an image of height ih, and y' = min(2000, sh-1)
\* when the raw pair is used as it is.
C18_OutOfRangePairClamped ==
    (ConvertCalled /\ arg.x = -10 /\ arg.y = 2000)
        => /\ ret.x = 0
           /\ CASE FormatOf(arg) = "normalized_1000" -> ret.y = Screen(arg).h - 1
                [] FormatOf(arg) = "absolute" /\ arg.image_size # JNull ->
                      /\ IsRoundedThenClamped(ret.y, 2000, arg.image_size.h,
                                              Screen(arg).h, Screen(arg).h)
                      /\ (2000 * Screen(arg).h
                             >= arg.image_size.h * (Screen(arg).h - 1))
                            => ret.y = Screen(arg).h - 1
                [] OTHER ->
                      ret.y = IF 2000 < Screen(arg).h - 1
                              THEN 2000 ELSE Screen(arg).h - 1

C18_Witness ==
    /\ ConvertCalled
    /\ arg.x = -10 /\ arg.y = 2000
    /\ FormatOf(arg) = "absolute"
    /\ arg.image_size = JNull
    /\ Screen(arg) = Size(3840, 2160)
    /\ ret.x = 0 /\ ret.y = 2000

\* C19: in auto mode the call returns what it returns in normalized_1000
\* mode when the identifier contains "qwen3" in any letter case, and what
\* it returns in absolute mode for every other identifier, the empty one
\* included.
C19_AutoFollowsFamily ==
    (ConvertCalled /\ arg.env.COORD_FORMAT = "auto")
        => ret = ConvertAs(FormatOf(arg), arg)

C19_Witness ==
    /\ ConvertCalled
    /\ arg.env.COORD_FORMAT = "auto"
    /\ arg.model_name = <<"Q", "w", "e", "n", "3", "-", "V", "L">>
    /\ ret = ConvertAs("normalized_1000", arg)
    /\ ret # ConvertAs("absolute", arg)

\* C20: a convert_coordinates call computes the display scale factor, keeps
\* it for later calls, and returns the mode-resolved pair divided by that
\* factor (to within a pixel), clamped.
C20_ScaleCorrectionApplied ==
    ConvertCalled
        => /\ dpi_scale # JNull
           /\ LET scale == GetDpiScale(JNull, arg.env).v
                  real == RealCoordinates(FormatOf(arg), arg.x, arg.y,
                                          arg.image_size, Screen(arg))
                  OnScreen == /\ 0 <= real.x /\ real.x <= Screen(arg).w - 1
                              /\ 0 <= real.y /\ real.y <= Screen(arg).h - 1
              IN  OnScreen
                    => /\ ret.x * scale - real.x * 100 <= scale
                       /\ real.x * 100 - ret.x * scale <= scale
                       /\ ret.y * scale - real.y * 100 <= scale
                       /\ real.y * 100 - ret.y * scale <= scale

\* C21: in a run, the position a spatial action's input primitive receives
\* is the coordinate mapper's result for the raw pair, the size of the image
\* sent to the model in that iteration and the identifier of the model in
\* use (so a known-family model under mode auto gets the normalized rule).
C21_RunResolvesWithImageAndModel ==
    (arg.fn = "run_task_act" /\ Called)
        => ret = SpatialTarget(ValidatedAction(arg), arg.sent, arg.model, arg.env)

ExtractCalled == arg.fn = "extract_json" /\ Called

\* the interiors of the fenced json blocks of t: what stands between a
\* fence followed by "json" and the next fence
JsonBlockInteriors(t) ==
    {SubSeq(t, i + Len(Fence) + Len(JsonWord), j - 1) :
        <<i, j>> \in
          {q \in Occurrences(Fence \o JsonWord, t) \X Occurrences(Fence, t) :
              /\ q[2] >= q[1] + Len(Fence) + Len(JsonWord)
              /\ \A k \in Occurrences(Fence, t) :
                    k >= q[1] + Len(Fence) + Len(JsonWord) => q[2] <= k}}

\* the first fence of t opens a block, with or without "json", whose content
\* up to the next fence is, apart from blanks around it, a text from "{"
\* to "}": that content, in a set (empty when t has no such block)
FirstBlockObject(t) ==
    LET fences == Occurrences(Fence, t)
        a == IF StartsAt(JsonWord, t, Least(fences) + Len(Fence))
             THEN Least(fences) + Len(Fence) + Len(JsonWord)
             ELSE Least(fences) + Len(Fence)
        closing == {j \in fences : j >= a}
        inner == Strip(SubSeq(t, a, Least(closing) - 1))
    IN  IF fences = {} THEN {}
        ELSE IF closing = {} THEN {}
        ELSE IF Len(inner) >= 2 /\ inner[1] = "{" /\ inner[Len(inner)] = "}"
        THEN {inner} ELSE {}

\* C22 as stated: for any text with a fenced json block, extract_json
\* returns the interior of that block (here: of one of its json blocks, with
\* or without the blanks around it).
C22_FencedInteriorReturned ==
    (ExtractCalled /\ JsonBlockInteriors(arg.text) # {})
        => /\ ret.some
           /\ \E inner \in JsonBlockInteriors(arg.text) :
                 ret.s = inner \/ ret.s = Strip(inner)

\* C22: when the first fence of the cleaned text opens a block whose content
\* is an object text, extract_json returns that content without the blanks
\* around it, also when a raw object stands earlier in the text.
C22_FirstFencedObjectReturned ==
    ExtractCalled
        => \A inner \in FirstBlockObject(Clean(arg.text)) : ret = Some(inner)

\* a fenced object was returned although a raw object precedes the fence
C22_Witness ==
    /\ ExtractCalled
    /\ FirstBlockObject(Clean(arg.text)) # {}
    /\ BraceScan(Clean(arg.text)) # None
    /\ BraceScan(Clean(arg.text)) # ret
    /\ \E k \in 1..Len(Clean(arg.text)) :
          /\ Clean(arg.text)[k] = "{"
          /\ k < Least(Occurrences(Fence, Clean(arg.text)))
    /\ ret \in {Some(inner) : inner \in FirstBlockObject(Clean(arg.text))}

\* the brace depth of t after its first i characters
Depth(t, i) ==
    Cardinality({k \in 1..i : t[k] = "{"}) - Cardinality({k \in 1..i : t[k] = "}"})

\* t has no code block: no fence followed by another one
NoFences(t) ==
    \A i, j \in Occurrences(Fence, t) : j < i + Len(Fence)

\* the span from the first "{" seen at depth 0 to its matching "}", in a
\* set (empty when no "{" is seen at depth 0 or it is never closed)
FirstBalancedSpan(t) ==
    LET starts == {j \in 1..Len(t) : t[j] = "{" /\ Depth(t, j - 1) = 0}
        closes == {m \in 1..Len(t) : m > Least(starts) /\ Depth(t, m) = 0}
    IN  IF starts = {} THEN {}
        ELSE IF closes = {} THEN {}
        ELSE {SubSeq(t, Least(starts), Least(closes))}

\* C23: when the cleaned text has no fenced block, extract_json returns the
\* span from the first "{" seen at depth 0 to its matching "}", nested
\* objects included and trailing text excluded, and None when there is no
\* such span; for noise {"a":{"b":1}} trailing it returns {"a":{"b":1}}.
C23_FirstBalancedSpanReturned ==
    (ExtractCalled /\ NoFences(Clean(arg.text)))
        => /\ ret.some <=> FirstBalancedSpan(Clean(arg.text)) # {}
           /\ \A span \in FirstBalancedSpan(Clean(arg.text)) : ret = Some(span)
           /\ arg.text = <<"n", "o", "i", "s", "e", " ", "{", "\"", "a",
               "\"", ":", "{", "\"", "b", "\"", ":", "1", "}", "}", " ", "t",
               "r", "a", "i", "l", "i", "n", "g">>
                 => ret = Some(<<"{", "\"", "a", "\"", ":", "{", "\"", "b",
                     "\"", ":", "1", "}", "}">>)

\* the example of the claim: a nested object between noise and trailing text
C23_Witness ==
    /\ ExtractCalled
    /\ arg.text = <<"n", "o", "i", "s", "e", " ", "{", "\"", "a", "\"", ":",
        "{", "\"", "b", "\"", ":", "1", "}", "}", " ", "t", "r", "a", "i",
        "l", "i", "n", "g">>
    /\ ret = Some(<<"{", "\"", "a", "\"", ":", "{", "\"", "b", "\"", ":",
        "1", "}", "}">>)

\* the text has no "{"
NoBrace(t) == \A k \in 1..Len(t) : t[k] # "{"

\* C24: for every text with no "{", extract_json returns None and parse
\* returns a turn with action type done, a message param and status failed.
C24_NoBraceIsDoneFailed ==
    (arg.fn = "extract_json" /\ NoBrace(arg.text))
        => /\ Called => ret = None
           /\ ParseCalled
                 => /\ ~p_out.raised
                    /\ p_out.action.type = "done"
                    /\ DOMAIN p_out.action.params = {"message"}
                    /\ p_out.action.params.message.t = "str"
                    /\ p_out.status = "failed"

\* both calls were made on a text with a code block and no "{"
C24_Witness ==
    /\ ExtractCalled
    /\ ParseCalled
    /\ NoBrace(arg.text)
    /\ Occurrences(Fence \o JsonWord, arg.text) # {}
    /\ ret = None
    /\ p_out.status = "failed"

\* the text decoded to an object
InputObject == p_in.k = "json" /\ p_in.v.t = "obj"

\* the decoded object has an action object
InputHasAction ==
    /\ InputObject
    /\ "action" \in DOMAIN p_in.v.v
    /\ p_in.v.v.action.t = "obj"

\* ... whose type is the kind ty
InputKind(ty) ==
    /\ InputHasAction
    /\ "type" \in DOMAIN p_in.v.v.action.v
    /\ p_in.v.v.action.v.type = JStr(ty)

\* ... and whose params are a dict (an absent params counts as {})
InputParamsDict ==
    "params" \in DOMAIN p_in.v.v.action.v => p_in.v.v.action.v.params.t = "obj"

InputParams ==
    IF "params" \in DOMAIN p_in.v.v.action.v
    THEN p_in.v.v.action.v.params.v ELSE EmptyDict

\* the thought of the model, if it gave one, is a str
InputThoughtIsStr == "thought" \in DOMAIN p_in.v.v => p_in.v.v.thought.t = "str"

InputStatusIsStr == "status" \in DOMAIN p_in.v.v => p_in.v.v.status.t = "str"

\* C25: a click whose params lack button and clicks is validated to params
\* with button "left" and clicks 1 and no undeclared field; validating the
\* params of any returned action again gives the same params.
C25_DefaultsAndIdempotence ==
    (ParseCalled /\ ~p_out.raised)
        => /\ ( /\ InputKind("click")
                /\ InputParamsDict
                /\ DOMAIN InputParams \cap {"button", "clicks"} = {}
                /\ p_out.action.type = "click" )
              => /\ DOMAIN p_out.action.params = {"x", "y", "button", "clicks"}
                 /\ p_out.action.params.button = JStr("left")
                 /\ p_out.action.params.clicks = JInt(1)
           /\ Validate(PARAM_VALIDATORS[p_out.action.type], p_out.action.params)
                 = Good(p_out.action.params)

\* a click with an undeclared field and no button came back with defaults
C25_Witness ==
    /\ ParseCalled
    /\ InputKind("click")
    /\ InputParamsDict
    /\ InputParams = [x |-> JInt(10), y |-> JInt(20), extra |-> JStr("z")]
    /\ ~p_out.raised
    /\ p_out.action =
          AgentAction("click", [x |-> JInt(10), y |-> JInt(20),
                                button |-> JStr("left"), clicks |-> JInt(1)])

\* the fields a kind requires: click and move x and y, type text, hotkey
\* keys, scroll amount, the other kinds none
RequiredFields(ty) ==
    CASE ty \in {"click", "move"} -> {"x", "y"}
      [] ty = "type" -> {"text"}
      [] ty = "hotkey" -> {"keys"}
      [] ty = "scroll" -> {"amount"}
      [] OTHER -> {}

Mismatch(ty, val) ==
    \/ ty = "int" /\ val.t \in {"str", "float"}
    \/ ty = "str" /\ val.t \in {"int", "float"}

\* C27: a param value whose JSON type is not that of its field is never
\* coerced and accepted: parse returns action done with an "Invalid params"
\* message and status failed.
C27_MismatchNeverCoerced ==
    \A ty \in ActionType :
        ( /\ ParseCalled
          /\ InputKind(ty)
          /\ InputParamsDict
          /\ InputThoughtIsStr
          /\ \E f \in DOMAIN InputParams \cap DOMAIN PARAM_VALIDATORS[ty] :
                Mismatch(PARAM_VALIDATORS[ty][f].ty, InputParams[f]) )
            => /\ ~p_out.raised
               /\ p_out.action = DoneAction("Invalid params: ...")
               /\ p_out.status = "failed"

C29_MissingActionOrTypeFails ==
    ( /\ ParseCalled
      /\ InputObject
      /\ \/ "action" \notin DOMAIN p_in.v.v
         \/ /\ p_in.v.v.action.t = "obj"
            /\ "type" \notin DOMAIN p_in.v.v.action.v )
        => /\ ~p_out.raised
           /\ p_out.action.type = "done"
           /\ p_out.status = "failed"

\* the callbacks made so far (the appends, when no callback is set)
Callbacks == IF on_step_callback THEN Len(published) ELSE Len(steps)

\* no event of an iteration is ahead of the one before it in the order
\* capture, model call, parse, execute, step append, callback, termination
\* check, and no capture is made before the check of the iteration before
EventsInOrder ==
    /\ n_capture >= n_chat
    /\ n_chat >= n_parse
    /\ n_parse >= n_exec
    /\ n_exec >= Len(steps)
    /\ Len(steps) >= Callbacks
    /\ Callbacks >= n_check
    /\ n_check >= n_capture - 1

\* C30: within each iteration capture, model call, parse, execute, step
\* append, callback and termination check occur exactly once each and in
\* this order, and the model call of iteration n+1 does not start before the
\* execution and the step append of iteration n: the counts of the events
\* never leave this order, and a run that has ended has made each event
\* once in each of its iterations.
C30_EventsOncePerIterationInOrder ==
    /\ EventsInOrder
    /\ Ended => /\ n_chat = n_capture
                /\ n_parse = n_capture
                /\ n_exec = n_capture
                /\ Len(steps) = n_capture
                /\ Callbacks = n_capture
                /\ n_check = n_capture



-----------------------------------------------------------------------------
(* ui/streamlit_app.py: the page, with the Orchestrator that run_agent_task *)
(* creates as the instance of the loop variables.  No statement of the page *)
(* calls stop() on that instance, so the break of lines 106-107 is not      *)
(* among the steps.                                                         *)

\* st.session_state after init_session_state: the page's own Orchestrator
\* (its is_running flag), the page's is_running flag, and whether the stop
\* button was pressed
SessionState(orchestrator_is_running, running, pressed) ==
    [open |-> TRUE, orchestrator |-> [is_running |-> orchestrator_is_running],
     is_running |-> running, stop_pressed |-> pressed]

\* config.MAX_STEPS, the cap of an Orchestrator made without arguments,
\* scaled to the model's bound
InitUI ==
    /\ pc = "idle"
    /\ max_steps = MaxSteps
    /\ step_num = 0
    /\ is_running = FALSE
    /\ steps = <<>>
    /\ conversation_history = <<>>
    /\ screenshot_b64 = 0
    /\ llm_response = NoJson
    /\ parsed = Raised
    /\ exec_out = Raised
    /\ result = NoResult
    /\ stop_called = FALSE
    /\ n_capture = 0
    /\ n_chat = 0
    /\ n_exec = 0
    /\ p_in = NoJson
    /\ p_out = NotCalled
    /\ stop_at = 0
    /\ arg = NoCall
    /\ ret = NotCalled
    /\ dpi_scale = JNull
    /\ on_step_callback = TRUE
    /\ published = <<>>
    /\ n_parse = 0
    /\ n_check = 0
    /\ llm = "any"
    /\ chat_log = <<>>
    /\ n_delay = 0
    /\ previous = NoPrevious
    /\ stop_before = NoStopBefore
    /\ session_state = SessionState(FALSE, FALSE, FALSE)

\* run_agent_task, lines 47-54: a new Orchestrator with the page's callback,
\* and its run_task up to the entry of the loop
RunAgentTask ==
    /\ pc = "idle"
    /\ ~session_state.is_running
    /\ session_state' = [session_state EXCEPT !.is_running = TRUE]
    /\ pc' = "loop"
    /\ steps' = <<>>
    /\ is_running' = TRUE
    /\ conversation_history' = <<>>
    /\ step_num' = 1
    /\ UNCHANGED <<max_steps, screenshot_b64, llm_response, parsed, exec_out,
                   result, stop_called, n_capture, n_chat, n_exec, p_in, p_out,
                   stop_at, callVars, chat_log, n_delay, llm, previous,
                   stop_before, obsVars>>

\* run_agent_task, lines 56-57, once run_task has returned
AgentTaskReturns ==
    /\ pc = "returned"
    /\ session_state.is_running
    /\ session_state' = [session_state EXCEPT !.is_running = FALSE]
    /\ UNCHANGED <<pc, max_steps, step_num, is_running, steps,
                   conversation_history, screenshot_b64, llm_response, parsed,
                   exec_out, result, stop_called, n_capture, n_chat, n_exec,
                   p_in, p_out, stop_at, callVars, chat_log, n_delay, llm,
                   previous, stop_before, obsVars>>

\* main, lines 155-159: the stop button, shown while the page's is_running
\* flag is set, calls stop() on st.session_state.orchestrator
PressStop ==
    /\ session_state.is_running
    /\ session_state' = [session_state EXCEPT !.orchestrator.is_running = FALSE,
                                              !.is_running = FALSE,
                                              !.stop_pressed = TRUE]
    /\ UNCHANGED <<pc, max_steps, step_num, is_running, steps,
                   conversation_history, screenshot_b64, llm_response, parsed,
                   exec_out, result, stop_called, n_capture, n_chat, n_exec,
                   p_in, p_out, stop_at, callVars, chat_log, n_delay, llm,
                   previous, stop_before, obsVars>>

NextUI ==
    \/ RunAgentTask
    \/ LoopExhausted
    \/ Capture
    \/ Chat
    \/ ParseResponse
    \/ Execute
    \/ Record
    \/ Callback
    \/ ExtendHistory
    \/ CheckDone
    \/ CheckFailed
    \/ Delay
    \/ AgentTaskReturns
    \/ PressStop

SpecUI == InitUI /\ [][NextUI]_vars

-----------------------------------------------------------------------------
(* The conversation history of a run.                                      *)

\* the (instruction, raw model text) pairs of the model calls 1..k, in order
Pairs(k) ==
    [i \in 1..(2 * k) |->
        IF i % 2 = 1
        THEN [role |-> "user", content |-> chat_log[(i + 1) \div 2].user_message]
        ELSE [role |-> "assistant", content |-> chat_log[i \div 2].response]]

\* the model calls whose pair the history holds by now
PairsHeld ==
    IF pc \in {"parse", "execute", "record", "callback", "history", "raised"}
    THEN Len(chat_log) - 1
    ELSE Len(chat_log)

\* C31: model call n of a run is given exactly the pairs of the calls 1..n-1,
\* in order, its instruction has the first-step framing iff n = 1, and the
\* history is at every moment of the run the pairs made so far: no entry is
\* ever removed or altered.
C31_HistoryIsEarlierPairs ==
    /\ Len(chat_log) = n_chat
    /\ \A n \in 1..Len(chat_log) :
          /\ chat_log[n].history = Pairs(n - 1)
          /\ (chat_log[n].user_message = "first") <=> (n = 1)
    /\ conversation_history = Pairs(PairsHeld)

\* the third model call was made, with the two earlier pairs as its history
C31_Witness ==
    /\ pc = "parse"
    /\ Len(chat_log) = 3
    /\ Len(chat_log[3].history) = 4
    /\ chat_log[3].user_message = "continue"


-----------------------------------------------------------------------------
(* The end of an iteration that does not end the run.                      *)

\* the run ended at the step cap: max_steps steps recorded, none of them final
EndedAtCap ==
    /\ pc = "returned"
    /\ result.message.prefix = "Max steps (max_steps) reached without completion"
    /\ Len(steps) = max_steps

\* C32: the delay is made only between two iterations: a run that ends at
\* the step cap after max_steps steps has waited once before each capture
\* but the first, and has appended no pair for its last step.
C32_DelayOnlyBetweenIterations ==
    (EndedAtCap /\ max_steps > 0) =>
        /\ n_delay = max_steps - 1
        /\ Len(conversation_history) = 2 * (max_steps - 1)


-----------------------------------------------------------------------------
(* The step callback.                                                      *)

\* the steps recorded before the newest one
AllButLast(s) == SubSeq(s, 1, Len(s) - 1)

\* C33: with a callback set, the steps it was called with are the run's step
\* list, in order and once each: all but the newest between the append and
\* the call, all of them from the call on, and the call for a step is made
\* before the termination decision of its iteration.
C33_PublishedEqualsSteps ==
    on_step_callback =>
        /\ published = IF pc = "callback" THEN AllButLast(steps) ELSE steps
        /\ n_check = IF pc \in {"history", "check"}
                     THEN Len(published) - 1
                     ELSE Len(published)

\* a run with a callback ended at its second step, which was published too
C33_Witness ==
    /\ on_step_callback
    /\ pc = "returned"
    /\ result.success
    /\ Len(steps) = 2
    /\ published = steps
    /\ published[2].status = "completed"


-----------------------------------------------------------------------------
(* The message of a run that ends without a final step.                    *)

\* C34: a run reports that the step cap was reached only when exactly
\* max_steps steps were recorded; a run that the stop signal ended after
\* fewer steps fails without that message.
C34_CapMessageOnlyAtCap ==
    (pc = "returned" /\ ~result.success /\
     result.message.prefix = "Max steps (max_steps) reached without completion")
        => Len(result.steps) = max_steps


-----------------------------------------------------------------------------
(* One Orchestrator instance over its life: stop() while no run is in      *)
(* progress, run_task called again after a run has ended, and get_steps.   *)
(* The model in use answers one of three ways, and a callback is set, as   *)
(* both callers of the repository do.                                      *)

InitLifecycle ==
    /\ pc = "idle"
    /\ max_steps \in 0..MaxSteps
    /\ step_num = 0
    /\ is_running = FALSE
    /\ steps = <<>>
    /\ conversation_history = <<>>
    /\ screenshot_b64 = 0
    /\ llm_response = NoJson
    /\ parsed = Raised
    /\ exec_out = Raised
    /\ result = NoResult
    /\ stop_called = FALSE
    /\ n_capture = 0
    /\ n_chat = 0
    /\ n_exec = 0
    /\ p_in = NoJson
    /\ p_out = NotCalled
    /\ stop_at = 0
    /\ arg = NoCall
    /\ ret = NotCalled
    /\ dpi_scale = JNull
    /\ on_step_callback = TRUE
    /\ published = <<>>
    /\ n_parse = 0
    /\ n_check = 0
    /\ llm = "scripted"
    /\ chat_log = <<>>
    /\ n_delay = 0
    /\ previous = NoPrevious
    /\ stop_before = NoStopBefore
    /\ session_state = NoSession

\* stop(), lines 194-196, called while no run_task call is in progress
StopAtRest ==
    /\ ~Running
    /\ is_running' = FALSE
    /\ stop_before' = [stop_before EXCEPT !.pending = TRUE]
    /\ UNCHANGED <<pc, max_steps, step_num, steps, conversation_history,
                   screenshot_b64, llm_response, parsed, exec_out, result,
                   stop_called, n_capture, n_chat, n_exec, p_in, p_out, stop_at,
                   callVars, chat_log, n_delay, llm, previous, session_state,
                   obsVars>>

\* the TaskResult of the run that ended, whose steps field is the list object
\* self.steps was bound to; shared: self.steps is still bound to that object
Earlier(stepList, shared) ==
    IF result.returned
    THEN [some |-> TRUE, result |-> result, list |-> stepList, shared |-> shared]
    ELSE NoPrevious

\* run_task called again with the reset emptying the list in place
\* (self.steps.clear()) instead of binding a new one
RunAgainClearsInPlace ==
    /\ pc \in {"returned", "raised"}
    /\ pc' = "loop"
    /\ steps' = <<>>
    /\ previous' = Earlier(<<>>, TRUE)
    /\ is_running' = TRUE
    /\ conversation_history' = <<>>
    /\ step_num' = 1
    /\ result' = NoResult
    /\ stop_before' = [pending |-> FALSE, run |-> stop_before.pending]
    /\ screenshot_b64' = 0
    /\ llm_response' = NoJson
    /\ parsed' = Raised
    /\ exec_out' = Raised
    /\ stop_called' = FALSE
    /\ n_capture' = 0
    /\ n_chat' = 0
    /\ n_exec' = 0
    /\ stop_at' = 0
    /\ published' = <<>>
    /\ n_parse' = 0
    /\ n_check' = 0
    /\ chat_log' = <<>>
    /\ n_delay' = 0
    /\ UNCHANGED <<max_steps, p_in, p_out, callVars, on_step_callback, llm,
                   session_state>>

\* run_task called again after a run has ended, lines 98-105: self.steps = []
\* binds a new list, the locals and the observers of the call start afresh
RunAgain ==
    /\ pc \in {"returned", "raised"}
    /\ pc' = "loop"
    /\ steps' = <<>>
    /\ previous' = Earlier(steps, FALSE)
    /\ is_running' = TRUE
    /\ conversation_history' = <<>>
    /\ step_num' = 1
    /\ result' = NoResult
    /\ stop_before' = [pending |-> FALSE, run |-> stop_before.pending]
    /\ screenshot_b64' = 0
    /\ llm_response' = NoJson
    /\ parsed' = Raised
    /\ exec_out' = Raised
    /\ stop_called' = FALSE
    /\ n_capture' = 0
    /\ n_chat' = 0
    /\ n_exec' = 0
    /\ stop_at' = 0
    /\ published' = <<>>
    /\ n_parse' = 0
    /\ n_check' = 0
    /\ chat_log' = <<>>
    /\ n_delay' = 0
    /\ UNCHANGED <<max_steps, p_in, p_out, callVars, on_step_callback, llm,
                   session_state>>

\* what get_steps returned: a list, and whether it is the object self.steps
GotSteps(stepList, shared) ==
    [called |-> TRUE, list |-> stepList, shared |-> shared]

\* get_steps returning self.steps itself
GetStepsNoCopy ==
    /\ ret' = GotSteps(steps, TRUE)
    /\ UNCHANGED <<loopVars, p_in, p_out, arg, dpi_scale>>

\* get_steps, lines 198-200, called at any moment: a copy of the list
GetSteps ==
    /\ ret' = GotSteps(steps, FALSE)
    /\ UNCHANGED <<loopVars, p_in, p_out, arg, dpi_scale>>

\* what a caller of get_steps adds to the list it was given
CallerItem == [added_by |-> "the caller"]

\* the caller of get_steps appends to the list it was given
CallerAppends ==
    /\ ret # NotCalled
    /\ \A i \in 1..Len(ret.list) : ret.list[i] # CallerItem
    /\ ret' = [ret EXCEPT !.list = Append(ret.list, CallerItem)]
    /\ steps' = IF ret.shared THEN ret'.list ELSE steps
    /\ UNCHANGED <<pc, max_steps, step_num, is_running, conversation_history,
                   screenshot_b64, llm_response, parsed, exec_out, result,
                   stop_called, n_capture, n_chat, n_exec, p_in, p_out, stop_at,
                   arg, dpi_scale, runVars, obsVars>>

NextLifecycle ==
    \/ RunTask
    \/ LoopExhausted
    \/ LoopBreak
    \/ Capture
    \/ Chat
    \/ ParseResponse
    \/ Execute
    \/ Record
    \/ Callback
    \/ ExtendHistory
    \/ CheckDone
    \/ CheckFailed
    \/ Delay
    \/ Stop
    \/ StopAtRest
    \/ RunAgain
    \/ GetSteps
    \/ CallerAppends

SpecLifecycle == InitLifecycle /\ [][NextLifecycle]_vars


-----------------------------------------------------------------------------
(* Runs of one instance, one after another.                                *)

\* a run_task call has made its reset and nothing else yet
RunStarted == pc = "loop" /\ n_capture = 0

\* C35: a new run starts with the step counter at 1, an empty history and an
\* empty step list; the step list of the TaskResult the run before returned
\* stays what it was however the new run goes on; and whatever a caller does
\* to the list get_steps gave it leaves the instance's step list alone.
C35_NewRunResetsAndKeepsOldResult ==
    /\ [](RunStarted =>
             step_num = 1 /\ conversation_history = <<>> /\ steps = <<>>)
    /\ [](previous.some => previous.list = previous.result.steps)
    /\ [][ret' # ret => steps' = steps]_vars

\* a second run has recorded a step while the first run's result keeps its
\* two steps, and a caller has appended to the list get_steps gave it
C35_Witness ==
    /\ previous.some
    /\ Len(previous.result.steps) = 2
    /\ previous.list = previous.result.steps
    /\ Len(steps) = 1
    /\ ret # NotCalled
    /\ ret.list = Append(steps, CallerItem)

\* C36: a stop() call made before run_task starts is honoured: the run makes
\* no capture and no model call, records no step and ends in failure.
C36_StopBeforeStartHonoured ==
    stop_before.run =>
        /\ n_capture = 0
        /\ n_chat = 0
        /\ steps = <<>>
        /\ (pc = "returned" => ~result.success)


-----------------------------------------------------------------------------
(* The stop button of the page.                                            *)

\* C37: once the stop button was pressed while the task of run_agent_task
\* is executing, the stop signal of the Orchestrator that runs the task is
\* set: its is_running flag is off for the rest of the run.
C37_StopButtonStopsRunningInstance ==
    (session_state.open /\ session_state.stop_pressed /\ Running) => ~is_running


-----------------------------------------------------------------------------
(* extract_json: what the cleaning leaves, and stray closing braces.       *)

\* the text with its closed think regions and then its markers deleted
Deleted(t) == RemoveMarkers(RemoveThink(t))

\* C38: closed think regions and the /think and /no_think markers never
\* contribute to the candidate: extract_json returns on a text what it
\* returns on the text with those regions and markers deleted.
C38_SameAsOnDeletedText ==
    ExtractCalled => ret = ExtractJson(Deleted(arg.text))

\* t has a complete brace-balanced span: a "{" and a later "}" that brings
\* the depth back to what it was before the "{", never falling to it between
HasBalancedSpan(t) ==
    \E i, j \in 1..Len(t) :
        /\ i < j
        /\ t[i] = "{"
        /\ t[j] = "}"
        /\ Depth(t, j) = Depth(t, i - 1)
        /\ \A k \in i..(j - 1) : Depth(t, k) > Depth(t, i - 1)

\* C39: when the cleaned text has a complete brace-balanced span,
\* extract_json returns a candidate, also when unmatched "}" precede the span.
C39_StrayCloserDoesNotHide ==
    (ExtractCalled /\ HasBalancedSpan(Clean(arg.text))) => ret # None

=============================================================================
